---- MODULE Spec2Model ----
(***************************************************************************)
(* A model of the GPU resource lifecycle and per-frame coordination layer  *)
(* of the raymarching + physics viewer: Shader (Shader.cpp), Texture       *)
(* (Textures.cpp), and the Renderer / main loop (Renderer.cpp, main.cpp).  *)
(*                                                                         *)
(* Three specifications share the module's variables:                      *)
(*   SpecShader  Shader construction, use(), uniform setters, destruction  *)
(*   SpecTex     Texture construction against the process-wide cache       *)
(*   Spec        Renderer::Initialize and the main loop of main.cpp        *)
(* Each leaves the other components' variables at their initial values.    *)
(***************************************************************************)
EXTENDS Integers, Sequences, FiniteSets, TLC

(***************************************************************************)
(* Bounds of the model.                                                    *)
(***************************************************************************)
\* GL shader/program object names are drawn from 1..MaxGLName
MaxGLName == 4
\* GL texture names are drawn from 1..MaxTexName
MaxTexName == 2
\* file modification times are drawn from 1..MaxMtime
MaxMtime == 2
\* Texture instances that can be alive at once
MaxTexInst == 2
\* imported scene assets
MaxAssets == 2
\* GL vertex array names are drawn from 1..MaxArrayName
MaxArrayName == 2
\* GL buffer names are drawn from 1..MaxBufferName
MaxBufferName == 4
\* Mesh objects that can be alive at once
MaxMeshes == 2

\* the largest frame time measured, in ticks of 1/60 s
MaxMeasured == 60
\* Bind calls counted by Texture::totalBindCalls between two resets
MaxBindCalls == 3
\* the pointer's x coordinate is drawn from 0..MaxPos
MaxPos == 2

VARIABLES
    \* ---- GL program state and Shader objects (Shader.cpp) ----
    glShaders,          \* stage objects created and not yet handed to glDeleteShader
    glPrograms,         \* names of live program objects
    glFlagged,          \* programs deleted while current (kept until unused)
    glCurrentProgram,   \* program made current by glUseProgram, 0 = none
    glUniformVal,       \* program name -> location -> value
    shaders,            \* Shader instance per slot: alive, ID, m_isValid
    shOp                \* the last Shader operation and the GL calls it issued

shaderVars == <<glShaders, glPrograms, glFlagged, glCurrentProgram,
                glUniformVal, shaders, shOp>>

VARIABLES
    \* ---- the file system, GL texture objects and Texture (Textures.cpp) ----
    files,              \* path -> exists, mtime (last_write_time), chan
    glTextures,         \* names of live GL texture objects
    textureCache,       \* Texture::textureCache: path -> texture name
    textureTimestamps,  \* Texture::textureTimestamps: path -> mtime
    texInst,            \* the live Texture instances: ID, texturePath
    texOp,              \* the last Texture operation and what it did
    uploadedAt          \* live texture name -> mtime of the file uploaded

texVars == <<files, glTextures, textureCache, textureTimestamps, texInst,
             texOp, uploadedAt>>

VARIABLES
    \* ---- the Renderer and the main loop (Renderer.cpp, main.cpp) ----
    pc,                     \* where main() is
    m_editorState,          \* "EDITING" or "PLAYING"
    cursorMode,             \* GLFW_CURSOR input mode: "NORMAL" or "DISABLED"
    m_lockMouseInPlayMode,
    isPaused,
    m_raymarchShader,       \* "null" or "valid" (unique_ptr<Shader>)
    m_rasterShader,
    escapePressedLastFrame, \* statics of ProcessInput
    tabPressedLastFrame,
    m_sceneAssets,          \* sequence of [name, position]
    m_selectedAsset,
    frameCount,
    sinceFpsUpdate,         \* glfwGetTime() - fpsUpdateTime, in 1/60 s
    fps,                    \* <<frames, ticks>> of the last window, or <<0, 0>>
    deltaTime,              \* main()'s clamped deltaTime, in 1/60 s
    iter                    \* what the current loop iteration has done so far

mainVars == <<pc, m_editorState, cursorMode, m_lockMouseInPlayMode, isPaused,
              m_raymarchShader, m_rasterShader, escapePressedLastFrame,
              tabPressedLastFrame, m_sceneAssets, m_selectedAsset, frameCount,
              sinceFpsUpdate, fps, deltaTime, iter>>

VARIABLES
    \* ---- GL vertex arrays / buffers and Mesh objects (Mesh.cpp) ----
    glArrays,               \* live vertex array object names
    glBuffers,              \* live buffer object names
    meshes,                 \* the Mesh objects, by slot
    meshOp                  \* what the last Mesh operation did

meshVars == <<glArrays, glBuffers, meshes, meshOp>>

VARIABLES
    \* ---- the GPU objects the Renderer and what it owns hold ----
    meshesBuilt,            \* Mesh objects the Renderer has constructed
    gpuLive,                \* GPU objects held, as <<owner, number>>
    gpuLate,                \* GPU objects released after glfwTerminate
    terminated              \* glfwTerminate has run

lifeVars == <<meshesBuilt, gpuLive, gpuLate, terminated>>

VARIABLES
    \* ---- the clock Renderer::Update reads ----
    cadence,                \* ticks of 1/60 s between Update calls, when fixed
    updateCalls,            \* Update calls since the FPS window was reset
    fpsResets               \* FPS windows completed: 0, 1, or 2 for more

fpsVars == <<cadence, updateCalls, fpsResets>>

VARIABLES
    \* ---- texture binding (Textures.cpp Bind/Unbind) ----
    debugEnabled,           \* Texture::debugEnabled
    glActiveUnit,           \* GL: the active texture unit
    glBound,                \* GL: unit -> texture bound to GL_TEXTURE_2D
    bindInst,               \* instance -> [ID, isBound, lastBoundSlot]
    bindOp,                 \* the last binding operation
    totalBindCalls,         \* Texture::totalBindCalls
    activeBindings          \* Texture::activeBindings

bindVars == <<debugEnabled, glActiveUnit, glBound, bindInst, bindOp,
              totalBindCalls, activeBindings>>

VARIABLES
    \* ---- what Initialize loads and sets up (Renderer.h:67-68, 89) ----
    texture,                \* "null" or "loaded": the Texture* member
    textureLoaded,          \* the flag kept next to it
    m_cubeVAO               \* 0, or 1 for the name glGenVertexArrays gave

loadVars == <<texture, textureLoaded, m_cubeVAO>>

VARIABLES
    \* ---- the frame time of main() taken through its clamp ----
    measured,               \* currentFrameTime - lastFrameTime, in 1/60 s
    handed                  \* what stepSimulation and Update were given

deltaVars == <<measured, handed>>

VARIABLES
    \* ---- the statics of ProcessInput that outlive a frame ----
    rPressedLastFrame,      \* Renderer.cpp:643
    firstMouse,             \* the static of the free-fly block (line 580)
    firstOrbit,             \* the static of the orbit block (line 592)
    lastX,                  \* the static lastX of the free-fly block
    orbitLastX,             \* the static lastX of the orbit block
    inOp                    \* what the last ProcessInput call met and did

inputVars == <<rPressedLastFrame, firstMouse, firstOrbit, lastX, orbitLastX,
               inOp>>

vars ==
    <<shaderVars, texVars, mainVars, meshVars, lifeVars, fpsVars, bindVars,
      loadVars, deltaVars, inputVars>>

(***************************************************************************)
(*                              Shader.cpp                                 *)
(***************************************************************************)
GLNames == 1..MaxGLName

\* The two programs the Renderer builds (Renderer.cpp:166, 191)
ShaderSlots == {"raymarch", "raster"}

\* What can happen while a Shader is built (Shader.cpp:38, 55, 64, 75, 88)
ShaderOutcomes == {"unreadable", "vertexFail", "fragmentFail", "linkFail", "success"}

\* The uniform setters of Shader.cpp:153-173
Setters == {"setBool", "setInt", "setFloat", "setVec3", "setMat4"}

\* Names the callers pass to setters; "absent" is in neither program
UniformNames == {"model", "useTexture", "u_time", "absent"}

UniformValues == {0, 1}

Locations == {0, 1}

\* Active uniforms of a linked program, in location order
ProgramUniforms(slot) ==
    IF slot = "raster" THEN <<"model", "useTexture">> ELSE <<"u_time">>

NoShader == [alive |-> FALSE, ID |-> 0, m_isValid |-> FALSE,
             outcome |-> "none"]

NoShaderOp == [name |-> "none", slot |-> "none", calls |-> {}]

\* glGetUniformLocation: the location of name in the program built for slot,
\* -1 when the program has no such active uniform
GetUniformLocation(slot, name) ==
    LET us == ProgramUniforms(slot)
        hits == {i \in 1..Len(us) : us[i] = name}
    IN IF hits = {} THEN -1 ELSE (CHOOSE i \in hits : TRUE) - 1

\* which slot's sources a live program was linked from
ProgramSlot(p) ==
    IF \E s \in ShaderSlots : shaders[s].alive /\ shaders[s].ID = p
    THEN CHOOSE s \in ShaderSlots : shaders[s].alive /\ shaders[s].ID = p
    ELSE "none"

\* checkCompileErrors: GL_COMPILE_STATUS of the stage
checkCompileErrors(type, o) ==
    IF type = "VERTEX" THEN o # "vertexFail" ELSE o # "fragmentFail"

\* checkLinkErrors: GL_LINK_STATUS of the program
checkLinkErrors(o) == o # "linkFail"

\* a constructor that keeps the handle of the program that failed to link
LinkFailKeepsID(p) == p

\* the handle the constructor leaves after a link failure (this->ID = 0)
LinkFailID(p) == 0

\* a constructor that forgets the vertex stage when the fragment stage fails
FragmentFailDeletesOwn(v, f) == {f}

\* the stages passed to glDeleteShader when the fragment stage fails to
\* compile (Shader.cpp:64-68)
FragmentFailDeletes(v, f) == {v, f}

\* The constructor, from the outcome o and the names v, f, p that
\* glCreateShader (twice) and glCreateProgram return.
ShaderCtor(o, v, f, p) ==
    LET start == [ID |-> 0, m_isValid |-> FALSE,
                  stages |-> glShaders, programs |-> glPrograms,
                  calls |-> {}]
    IN
    IF o = "unreadable" THEN start
    ELSE
    LET afterV == [start EXCEPT !.stages = @ \cup {v},
                       !.calls = @ \cup {"glCreateShader", "glCompileShader"}]
    IN
    IF ~checkCompileErrors("VERTEX", o)
    THEN [afterV EXCEPT !.stages = @ \ {v},
                        !.calls = @ \cup {"glDeleteShader"}]
    ELSE
    LET afterF == [afterV EXCEPT !.stages = @ \cup {f}]
    IN
    IF ~checkCompileErrors("FRAGMENT", o)
    THEN [afterF EXCEPT !.stages = @ \ FragmentFailDeletes(v, f),
                        !.calls = @ \cup {"glDeleteShader"}]
    ELSE
    LET linked == [afterF EXCEPT !.ID = p, !.programs = @ \cup {p},
                       !.calls = @ \cup {"glCreateProgram", "glAttachShader",
                                         "glLinkProgram"}]
    IN
    IF ~checkLinkErrors(o)
    THEN [linked EXCEPT !.stages = @ \ {v, f},
                        !.programs = @ \ {p},
                        !.ID = LinkFailID(p),
                        !.calls = @ \cup {"glDeleteShader", "glDeleteProgram"}]
    ELSE [linked EXCEPT !.stages = @ \ {v, f},
                        !.m_isValid = TRUE,
                        !.calls = @ \cup {"glDeleteShader"}]

ZeroUniforms == [l \in Locations |-> 0]

\* new Shader(vertexPath, fragmentPath) into an empty slot
ShaderConstruct(s) ==
    /\ ~shaders[s].alive
    /\ \E o \in ShaderOutcomes, v, f, p \in GLNames :
        /\ v \notin glShaders \cup glPrograms
        /\ f \notin glShaders \cup glPrograms \cup {v}
        /\ p \notin glShaders \cup glPrograms \cup {v, f}
        /\ LET r == ShaderCtor(o, v, f, p) IN
            /\ glShaders' = r.stages
            /\ glPrograms' = r.programs
            /\ glUniformVal' =
                 IF r.m_isValid
                 THEN [glUniformVal EXCEPT ![p] = ZeroUniforms]
                 ELSE glUniformVal
            /\ shaders' = [shaders EXCEPT ![s] =
                 [alive |-> TRUE, ID |-> r.ID, m_isValid |-> r.m_isValid,
                  outcome |-> o]]
            /\ shOp' = [name |-> "construct", slot |-> s, calls |-> r.calls]
    /\ UNCHANGED <<glFlagged, glCurrentProgram, texVars, mainVars, meshVars, lifeVars, fpsVars, bindVars, loadVars, deltaVars, inputVars>>

\* the uniform storage of deleted programs is gone
DropUniforms(ps) ==
    [q \in GLNames |-> IF q \in ps THEN ZeroUniforms ELSE glUniformVal[q]]

\* glDeleteProgram: a program that is current is only flagged for deletion
DeletedPrograms(p) == IF p = glCurrentProgram THEN {} ELSE {p}

\* Shader::~Shader
ShaderDestroy(s) ==
    /\ shaders[s].alive
    /\ IF shaders[s].ID # 0
       THEN /\ glPrograms' = glPrograms \ DeletedPrograms(shaders[s].ID)
            /\ glFlagged' = glFlagged \cup
                              ({shaders[s].ID} \ DeletedPrograms(shaders[s].ID))
            /\ glUniformVal' =
                  DropUniforms(DeletedPrograms(shaders[s].ID))
            /\ shOp' = [name |-> "destroy", slot |-> s,
                        calls |-> {"glDeleteProgram"}]
       ELSE /\ UNCHANGED <<glPrograms, glFlagged, glUniformVal>>
            /\ shOp' = [name |-> "destroy", slot |-> s, calls |-> {}]
    /\ shaders' = [shaders EXCEPT ![s] = NoShader]
    /\ UNCHANGED <<glShaders, glCurrentProgram, texVars, mainVars, meshVars, lifeVars, fpsVars, bindVars, loadVars, deltaVars, inputVars>>

\* glUseProgram(p): a flagged program is deleted once it is no longer current
GlUseProgram(p) ==
    /\ glCurrentProgram' = p
    /\ IF glCurrentProgram \in glFlagged /\ glCurrentProgram # p
       THEN /\ glPrograms' = glPrograms \ {glCurrentProgram}
            /\ glFlagged' = glFlagged \ {glCurrentProgram}
            /\ glUniformVal' = DropUniforms({glCurrentProgram})
       ELSE UNCHANGED <<glPrograms, glFlagged, glUniformVal>>

\* a use() without its guard
UseUnguarded(sh) == TRUE

\* the guard of Shader::use
UseGuard(sh) == sh.m_isValid

\* Shader::use
ShaderUse(s) ==
    /\ shaders[s].alive
    /\ IF UseGuard(shaders[s])
       THEN /\ GlUseProgram(shaders[s].ID)
            /\ shOp' = [name |-> "use", slot |-> s, calls |-> {"glUseProgram"}]
       ELSE /\ UNCHANGED <<glCurrentProgram, glPrograms, glFlagged,
                            glUniformVal>>
            /\ shOp' = [name |-> "use", slot |-> s, calls |-> {}]
    /\ UNCHANGED <<glShaders, shaders, texVars, mainVars, meshVars, lifeVars, fpsVars, bindVars, loadVars, deltaVars, inputVars>>

\* glUniform*(loc, value): acts on the current program; location -1 is
\* ignored, no current program or a location the current program does not
\* have is GL_INVALID_OPERATION and changes nothing
GlUniform(loc, value) ==
    IF /\ glCurrentProgram # 0
       /\ loc # -1
       /\ ProgramSlot(glCurrentProgram) # "none"
       /\ loc < Len(ProgramUniforms(ProgramSlot(glCurrentProgram)))
    THEN [glUniformVal EXCEPT ![glCurrentProgram][loc] = value]
    ELSE glUniformVal

\* the guard of every setter: if(m_isValid)
SetGuard(sh) == sh.m_isValid

\* Shader::setBool / setInt / setFloat / setVec3 / setMat4
ShaderSet(s) ==
    /\ shaders[s].alive
    /\ \E k \in Setters, name \in UniformNames, value \in UniformValues :
        IF SetGuard(shaders[s])
        THEN /\ glUniformVal' = GlUniform(GetUniformLocation(s, name), value)
             /\ shOp' = [name |-> k, slot |-> s,
                         calls |-> {"glGetUniformLocation", "glUniform"}]
        ELSE /\ UNCHANGED glUniformVal
             /\ shOp' = [name |-> k, slot |-> s, calls |-> {}]
    /\ UNCHANGED <<glShaders, glPrograms, glFlagged, glCurrentProgram,
                   shaders, texVars, mainVars, meshVars, lifeVars, fpsVars, bindVars, loadVars, deltaVars, inputVars>>

\* glUseProgram(0) as issued by the render passes
GlUseProgramZero ==
    /\ glCurrentProgram # 0
    /\ GlUseProgram(0)
    /\ shOp' = [name |-> "glUseProgram0", slot |-> "none",
                calls |-> {"glUseProgram"}]
    /\ UNCHANGED <<glShaders, shaders, texVars, mainVars, meshVars, lifeVars, fpsVars, bindVars, loadVars, deltaVars, inputVars>>

ShaderInit ==
    /\ glShaders = {}
    /\ glPrograms = {}
    /\ glFlagged = {}
    /\ glCurrentProgram = 0
    /\ glUniformVal = [p \in GLNames |-> ZeroUniforms]
    /\ shaders = [s \in ShaderSlots |-> NoShader]
    /\ shOp = NoShaderOp

(***************************************************************************)
(*                        Properties of Shader                             *)
(***************************************************************************)
\* C9: after construction, in every outcome, isValid() is true if and only
\* if the program handle is nonzero, and it is true only in the success
\* outcome.
C9_ValidIffHandle ==
    \A s \in ShaderSlots :
        shaders[s].alive =>
            /\ shaders[s].m_isValid <=> shaders[s].ID # 0
            /\ shaders[s].m_isValid => shaders[s].outcome = "success"
            /\ shaders[s].outcome \in ShaderOutcomes

C9_Witness ==
    /\ shOp.name = "construct"
    /\ shaders["raymarch"].alive
    /\ shaders["raymarch"].outcome = "linkFail"
    /\ shaders["raymarch"].ID = 0
    /\ shaders["raster"].alive
    /\ shaders["raster"].outcome = "success"
    /\ shaders["raster"].ID # 0

\* C10: on an invalid Shader, use() and every uniform setter issue no GPU
\* call; the active program and all uniform values are left unchanged.
C10_InvalidIssuesNoCall ==
    [][\A s \in ShaderSlots :
          (/\ shOp'.slot = s
           /\ shOp'.name \in Setters \cup {"use"}
           /\ shaders[s].alive
           /\ ~shaders[s].m_isValid)
          => /\ shOp'.calls = {}
             /\ glCurrentProgram' = glCurrentProgram
             /\ glUniformVal' = glUniformVal
             /\ glPrograms' = glPrograms]_vars

C10_Witness ==
    /\ shOp.name = "use"
    /\ shOp.slot = "raymarch"
    /\ shOp.calls = {}
    /\ shaders["raymarch"].alive
    /\ ~shaders["raymarch"].m_isValid
    /\ glCurrentProgram # 0
    /\ glCurrentProgram = shaders["raster"].ID
    /\ glUniformVal[glCurrentProgram][0] = 1

(***************************************************************************)
(*                               Mesh.cpp                                  *)
(***************************************************************************)
ArrayNames == 1..MaxArrayName

BufferNames == 1..MaxBufferName

MeshSlots == 1..MaxMeshes

\* sizes of the vertex and index vectors a Mesh is built from
VertexCounts == {0, 3}

IndexCounts == {0, 3}

NoMesh == [alive |-> FALSE, VAO |-> 0, VBO |-> 0, EBO |-> 0, indices |-> 0]

NoMeshOp == [name |-> "none", slot |-> 0, vertices |-> 0, generated |-> {},
             released |-> <<>>, VAO |-> 0, VBO |-> 0, EBO |-> 0,
             drawCalls |-> 0, count |-> 0, boundBefore |-> 0,
             boundAfter |-> 0]

\* what a glGen* call may leave in the handle: any name not in use, or the
\* 0 the member was initialised with when the call generates no name
GenResults(names, used) == (names \ used) \cup {0}

\* Mesh::Mesh with setupMesh; a, b, e are what glGenVertexArrays and the two
\* glGenBuffers calls leave in VAO, VBO, EBO
MeshCtor(ni, a, b, e) ==
    [alive |-> TRUE, VAO |-> a, VBO |-> b, EBO |-> e, indices |-> ni]

\* a cleanupMesh that forgets the element buffer
CleanupKeepsEBO(m) ==
    (IF m.VBO # 0 THEN <<(<<"buffer", m.VBO>>)>> ELSE <<>>)
      \o (IF m.VAO # 0 THEN <<(<<"array", m.VAO>>)>> ELSE <<>>)

\* the glDelete* calls of cleanupMesh, in order, as <<kind, name>>
CleanupCalls(m) ==
    (IF m.EBO # 0 THEN <<(<<"buffer", m.EBO>>)>> ELSE <<>>)
      \o (IF m.VBO # 0 THEN <<(<<"buffer", m.VBO>>)>> ELSE <<>>)
      \o (IF m.VAO # 0 THEN <<(<<"array", m.VAO>>)>> ELSE <<>>)

\* the names of one kind among a sequence of glDelete* calls
Deleted(calls, kind) ==
    {calls[i][2] : i \in {j \in 1..Len(calls) : calls[j][1] = kind}}

\* the handles cleanupMesh leaves in the object
CleanedMesh(m) ==
    [m EXCEPT !.EBO = IF m.EBO # 0 THEN 0 ELSE m.EBO,
              !.VBO = IF m.VBO # 0 THEN 0 ELSE m.VBO,
              !.VAO = IF m.VAO # 0 THEN 0 ELSE m.VAO]

\* whether Draw goes on to glDrawElements with the handles it has: it does
\* not look at them
DrawChecksHandles == FALSE

\* a Draw that leaves its vertex array bound
DrawBindsOnly(m) == <<m.VAO>>

\* the glBindVertexArray calls of Draw, in order (Mesh.cpp:75 and 82)
DrawBinds(m) == <<m.VAO, 0>>

\* the vertex array bound after a sequence of glBindVertexArray calls made
\* with the array `bound` bound
BoundAfter(bound, binds) ==
    IF binds = <<>> THEN bound ELSE binds[Len(binds)]

\* new Mesh(vertices, indices)
MeshConstruct(k) ==
    /\ ~meshes[k].alive
    /\ \E nv \in VertexCounts, ni \in IndexCounts,
          a \in GenResults(ArrayNames, glArrays),
          b \in GenResults(BufferNames, glBuffers) :
         \E e \in GenResults(BufferNames, glBuffers \cup {b}) :
           /\ meshes' = [meshes EXCEPT ![k] = MeshCtor(ni, a, b, e)]
           /\ glArrays' = glArrays \cup ({a} \ {0})
           /\ glBuffers' = glBuffers \cup ({b, e} \ {0})
           /\ meshOp' = [NoMeshOp EXCEPT
                           !.name = "construct", !.slot = k,
                           !.vertices = nv,
                           !.generated =
                               {<<"array", a>>, <<"buffer", b>>,
                                <<"buffer", e>>} \ {<<"array", 0>>,
                                                    <<"buffer", 0>>},
                           !.VAO = a, !.VBO = b, !.EBO = e]
    /\ UNCHANGED <<shaderVars, texVars, mainVars, lifeVars, fpsVars, bindVars, loadVars, deltaVars, inputVars>>

\* Mesh::Draw, called with the vertex array `bound` bound
MeshDraw(k) ==
    /\ meshes[k].alive
    /\ \E bound \in glArrays \cup {0} :
         meshOp' = [NoMeshOp EXCEPT
                    !.name = "draw", !.slot = k,
                    !.VAO = meshes[k].VAO, !.VBO = meshes[k].VBO,
                    !.EBO = meshes[k].EBO,
                    !.drawCalls =
                        IF DrawChecksHandles /\ 0 \in {meshes[k].VAO,
                                                       meshes[k].VBO,
                                                       meshes[k].EBO}
                        THEN 0 ELSE 1,
                    !.count = meshes[k].indices,
                    !.boundBefore = bound,
                    !.boundAfter = BoundAfter(bound, DrawBinds(meshes[k]))]
    /\ UNCHANGED <<glArrays, glBuffers, meshes, shaderVars, texVars,
                   mainVars, lifeVars, fpsVars, bindVars, loadVars, deltaVars, inputVars>>

\* Mesh::~Mesh with cleanupMesh; the log keeps the handles cleanupMesh
\* leaves in the object
MeshDestroy(k) ==
    /\ meshes[k].alive
    /\ LET calls == CleanupCalls(meshes[k]) IN
         /\ glBuffers' = glBuffers \ Deleted(calls, "buffer")
         /\ glArrays' = glArrays \ Deleted(calls, "array")
         /\ meshOp' = [NoMeshOp EXCEPT
                         !.name = "destroy", !.slot = k,
                         !.released = calls,
                         !.VAO = CleanedMesh(meshes[k]).VAO,
                         !.VBO = CleanedMesh(meshes[k]).VBO,
                         !.EBO = CleanedMesh(meshes[k]).EBO]
    /\ meshes' = [meshes EXCEPT ![k] = NoMesh]
    /\ UNCHANGED <<shaderVars, texVars, mainVars, lifeVars, fpsVars, bindVars, loadVars, deltaVars, inputVars>>

MeshInit ==
    /\ glArrays = {}
    /\ glBuffers = {}
    /\ meshes = [k \in MeshSlots |-> NoMesh]
    /\ meshOp = NoMeshOp

MeshNext ==
    \E k \in MeshSlots :
        \/ MeshConstruct(k)
        \/ MeshDraw(k)
        \/ MeshDestroy(k)

(***************************************************************************)
(*                         Properties of Mesh                              *)
(***************************************************************************)
\* the nonzero handles a Mesh holds, as <<kind, name>>
Held(m) ==
    {<<"array", m.VAO>>, <<"buffer", m.VBO>>, <<"buffer", m.EBO>>}
      \ {<<"array", 0>>, <<"buffer", 0>>}

\* the live GL objects are exactly the handles of the live Mesh objects, and
\* no handle is held twice
NoLeak ==
    /\ glArrays = {meshes[k].VAO : k \in {j \in MeshSlots : meshes[j].alive}}
                    \ {0}
    /\ glBuffers = UNION {{meshes[k].VBO, meshes[k].EBO} :
                             k \in {j \in MeshSlots : meshes[j].alive}} \ {0}
    /\ \A k \in MeshSlots :
          meshes[k].alive =>
             /\ meshes[k].VBO # 0 => meshes[k].VBO # meshes[k].EBO
             /\ \A j \in MeshSlots \ {k} :
                   meshes[j].alive => Held(meshes[j]) \cap Held(meshes[k]) = {}

MeshConstructStep(k) ==
    meshOp'.name = "construct" /\ meshOp'.slot = k /\ ~meshes[k].alive
      /\ meshes'[k].alive

MeshDestroyStep(k) ==
    meshOp'.name = "destroy" /\ meshOp'.slot = k /\ meshes[k].alive
      /\ ~meshes'[k].alive

\* C11: for any vertex/index input, constructing a Mesh allocates exactly
\* three GPU handles (one per glGen* call that yields a name) and destroying
\* it releases each of them exactly once and leaves VAO, VBO and EBO at
\* zero; over construct/destroy cycles the live GPU handles are exactly
\* those of the live Mesh objects (no leak, no double release).
C11_MeshHandlesBalanced ==
    [][\A k \in MeshSlots :
          /\ MeshConstructStep(k) =>
                /\ meshOp'.generated = Held(meshes'[k])
                /\ meshOp'.generated \cap
                     ({<<"array", n>> : n \in glArrays}
                        \cup {<<"buffer", n>> : n \in glBuffers}) = {}
                /\ (0 \notin {meshOp'.VAO, meshOp'.VBO, meshOp'.EBO}) =>
                      /\ Cardinality(meshOp'.generated) = 3
                      /\ Cardinality(glArrays') = Cardinality(glArrays) + 1
                      /\ Cardinality(glBuffers') = Cardinality(glBuffers) + 2
          /\ MeshDestroyStep(k) =>
                /\ {meshOp'.released[i] : i \in 1..Len(meshOp'.released)}
                     = Held(meshes[k])
                /\ Len(meshOp'.released) = Cardinality(Held(meshes[k]))
                /\ meshOp'.VAO = 0 /\ meshOp'.VBO = 0 /\ meshOp'.EBO = 0
                /\ Cardinality(glArrays') + Cardinality(glBuffers')
                     = Cardinality(glArrays) + Cardinality(glBuffers)
                         - Cardinality(Held(meshes[k]))
          /\ NoLeak']_vars

C11_Witness ==
    /\ meshOp.name = "destroy"
    /\ Len(meshOp.released) = 3
    /\ glArrays = {}
    /\ glBuffers = {}
    /\ \A k \in MeshSlots : ~meshes[k].alive

\* C12: from the end of construction to the start of destruction a Mesh's
\* three GPU handles are nonzero and never change; a construction in which
\* GPU allocation yields a zero handle leaves a detectably unusable Mesh,
\* not one that Draw() still draws with a zero handle.
C12_HandlesValidForLife ==
    [][\A k \in MeshSlots :
          /\ meshes'[k].alive =>
                \/ 0 \notin {meshes'[k].VAO, meshes'[k].VBO, meshes'[k].EBO}
                \/ ~(meshOp'.name = "draw" /\ meshOp'.slot = k
                       /\ meshOp'.drawCalls > 0)
          /\ (meshes[k].alive /\ meshes'[k].alive) =>
                meshes'[k] = meshes[k]]_vars

\* the step is a Draw of the Mesh in slot k
MeshDrawStep(k) ==
    meshOp'.name = "draw" /\ meshOp'.slot = k /\ meshes[k].alive

\* C25: Mesh::Draw issues one indexed draw over the whole index sequence of
\* the Mesh and returns with no vertex array bound, whatever vertex array
\* was bound when it was called; it changes neither the handles of the Mesh
\* nor its data, and no GPU object appears or goes away.
C25_DrawOnceAndUnbind ==
    [][\A k \in MeshSlots :
         MeshDrawStep(k) =>
           /\ meshOp'.drawCalls = 1
           /\ meshOp'.count = meshes[k].indices
           /\ meshOp'.boundAfter = 0
           /\ meshes' = meshes
           /\ glArrays' = glArrays
           /\ glBuffers' = glBuffers]_vars

C25_Witness ==
    /\ meshOp.name = "draw"
    /\ meshOp.boundBefore # 0
    /\ meshOp.boundBefore # meshOp.VAO
    /\ meshOp.VAO # 0
    /\ meshOp.count = 3
    /\ meshOp.drawCalls = 1
    /\ meshOp.boundAfter = 0

(***************************************************************************)
(*                        Renderer.cpp and main.cpp                        *)
(***************************************************************************)
\* dynamic rigid bodies initPhysics adds to the world (cube and sphere)
NumDynamicBodies == 2

\* the FPS window of Renderer::Update, 0.5 s, in ticks of 1/60 s
FpsWindow == 30

\* the clamp of main()'s deltaTime, 0.1 s, in ticks of 1/60 s
MaxDelta == 6

\* the time that passes between two iterations of the loop, in ticks of
\* 1/60 s: half a second; SpecFps runs Update on the shorter cadences and
\* SpecDelta takes the clamp through every measured value
FrameTicks == {30}

\* the files the import dialog may return
ImportPaths == {"model.obj", "scene.fbx"}

Origin == <<0, 0, 0>>

\* what Initialize met: how far window, context and loader setup got, and
\* whether each shader and a texture loaded
NoStartup == [context |-> "pending", ray |-> FALSE, raster |-> FALSE,
              texture |-> FALSE]

NoIter == [startup |-> NoStartup, steps |-> <<>>, passes |-> <<>>,
           escape |-> FALSE, rmbDrag |-> FALSE, orbitDrag |-> FALSE,
           escapeFired |-> FALSE, tab |-> FALSE, tabFired |-> FALSE,
           stepped |-> "pending", modeAtStep |-> "none",
           uiEvent |-> "pending", importPath |-> "none",
           importReported |-> FALSE, terrainPass |-> FALSE,
           fallbackClear |-> FALSE, physicsDrawn |-> 0, assetsDrawn |-> 0,
           nullDeref |-> FALSE, panels |-> {}, presented |-> FALSE,
           reload |-> "none", textured |-> FALSE]

\* isValid() of a Shader built with outcome o; the names do not matter
BuiltValid(o) == ShaderCtor(o, 1, 2, 3).m_isValid

\* what Initialize keeps of a Shader it built (Renderer.cpp:167, 192)
KeptShader(o) == IF BuiltValid(o) THEN "valid" ELSE "null"

\* the GPU objects of setupScreenQuad and setupPhysicsMeshes
QuadObjects == {<<"quadVAO", 0>>, <<"quadVBO", 0>>}

CubeObjects == {<<"cubeVAO", 0>>, <<"cubeVBO", 0>>, <<"cubeEBO", 0>>}

\* the geometry Renderer::CreateCube returns (Renderer.cpp:683-694)
CreateCube == [vertices |-> 8, indices |-> 36]

\* m_cubeVAO after Renderer::setupPhysicsMeshes: left at 0 when the geometry
\* is empty, else whatever glGenVertexArrays left, which is 0 when it
\* generated no name
setupPhysicsMeshes(cubeName) ==
    IF CreateCube.vertices = 0 \/ CreateCube.indices = 0 THEN 0
    ELSE cubeName

\* the cube objects that exist once setupPhysicsMeshes has run
CubeObjectsOf(vao) ==
    IF CreateCube.vertices = 0 \/ CreateCube.indices = 0 THEN {}
    ELSE IF vao = 0 THEN CubeObjects \ {<<"cubeVAO", 0>>}
    ELSE CubeObjects

\* the program a kept Shader holds
ProgramOf(slot, kept) == IF kept = "valid" THEN {<<slot, 0>>} ELSE {}

\* the buffers of the k-th Mesh the Renderer constructed
MeshObject(k) == <<"mesh", k>>

\* how far Initialize gets with GLFW, the window and the GL loader
\* (Renderer.cpp:125, 137, 150)
StartupOutcomes == {"noGlfw", "noWindow", "noLoader", "ok"}

\* an Initialize that goes on whatever glfwInit, glfwCreateWindow and
\* glewInit say
StartupNeverAborts(context) == FALSE

\* the early returns of Initialize
StartupAborts(context) == context # "ok"

\* a search that leaves the flag set when it finds nothing
LoadLeavesFlag(found) ==
    [texture |-> IF found THEN "loaded" ELSE "null", textureLoaded |-> TRUE]

\* Renderer::LoadTextureFromDirectories, which first drops the texture it
\* holds; found: some candidate file is there and its Texture constructor
\* does not throw
LoadTextureFromDirectories(found) ==
    IF found THEN [texture |-> "loaded", textureLoaded |-> TRUE]
    ELSE [texture |-> "null", textureLoaded |-> FALSE]

\* Renderer::Initialize (setupPhysicsMeshes builds and destroys one Mesh,
\* tempCube) and main()'s check of its result (main.cpp:138-143)
Initialize ==
    /\ pc = "init"
    /\ \E context \in StartupOutcomes, ray, raster \in ShaderOutcomes,
          found \in BOOLEAN, cubeName \in GenResults({1}, {}) :
         /\ IF StartupAborts(context)
            THEN /\ pc' = "aborted"
                 /\ iter' = [iter EXCEPT !.startup =
                                [NoStartup EXCEPT !.context = context]]
                 /\ UNCHANGED <<m_raymarchShader, m_rasterShader,
                                meshesBuilt, gpuLive, texture, textureLoaded,
                                m_cubeVAO>>
            ELSE /\ pc' = "loop"
                 /\ iter' = [iter EXCEPT !.startup =
                                [context |-> context,
                                 ray |-> BuiltValid(ray),
                                 raster |-> BuiltValid(raster),
                                 texture |-> found]]
                 /\ m_raymarchShader' = KeptShader(ray)
                 /\ m_rasterShader' = KeptShader(raster)
                 /\ texture' = LoadTextureFromDirectories(found).texture
                 /\ textureLoaded' =
                        LoadTextureFromDirectories(found).textureLoaded
                 /\ meshesBuilt' = 1
                 /\ m_cubeVAO' = setupPhysicsMeshes(cubeName)
                 /\ gpuLive' = QuadObjects
                                  \cup CubeObjectsOf(setupPhysicsMeshes(cubeName))
                                  \cup ProgramOf("raymarch", KeptShader(ray))
                                  \cup ProgramOf("raster", KeptShader(raster))
    /\ UNCHANGED <<m_editorState, cursorMode, m_lockMouseInPlayMode, isPaused,
                   escapePressedLastFrame, tabPressedLastFrame, m_sceneAssets,
                   m_selectedAsset, frameCount, sinceFpsUpdate, fps,
                   deltaTime, gpuLate, terminated, shaderVars, texVars,
                   meshVars, fpsVars, bindVars, deltaVars, inputVars>>

\* a clamp without its lower branch
ClampUpperOnly(d) == IF d > MaxDelta THEN MaxDelta ELSE d

\* main()'s clamp of the measured frame time d (main.cpp:157-158)
ClampDelta(d) ==
    LET upper == IF d > MaxDelta THEN MaxDelta ELSE d
    IN IF upper <= 0 THEN 1 ELSE upper

\* the sub-step limit and the fixed sub-step, in 1/60 s, of main()'s
\* stepSimulation call (main.cpp:166)
MaxSubSteps == 10

FixedTimeStep == 1

\* the frame times the clock may yield, in 1/60 s: the clock may stand
\* still or, read as a float, step back
MeasuredTicks == (0 - MaxMeasured)..MaxMeasured

NoHanded == [timeStep |-> 0, maxSubSteps |-> 0, fixedTimeStep |-> 0,
             update |-> 0]

\* the arguments of stepSimulation and of Update for a clamped frame time
\* (main.cpp:166, 170)
HandOver(dt) ==
    [timeStep |-> dt, maxSubSteps |-> MaxSubSteps,
     fixedTimeStep |-> FixedTimeStep, update |-> dt]

\* main.cpp:153-158: the frame time is measured and clamped
MeasureFrame ==
    /\ pc = "init"
    /\ deltaTime = 0
    /\ deltaTime' = ClampDelta(measured)
    /\ UNCHANGED <<pc, m_editorState, cursorMode, m_lockMouseInPlayMode,
                   isPaused, m_raymarchShader, m_rasterShader,
                   escapePressedLastFrame, tabPressedLastFrame, m_sceneAssets,
                   m_selectedAsset, frameCount, sinceFpsUpdate, fps, iter,
                   shaderVars, texVars, meshVars, lifeVars, fpsVars, bindVars,
                   loadVars, deltaVars, inputVars>>

\* main.cpp:165-170: the physics step and Update get the clamped time
StepAndUpdate ==
    /\ pc = "init"
    /\ deltaTime # 0
    /\ handed = NoHanded
    /\ handed' = HandOver(deltaTime)
    /\ UNCHANGED <<measured, shaderVars, texVars, mainVars, meshVars,
                   lifeVars, fpsVars, bindVars, loadVars, inputVars>>

\* a loop body that calls Update before the physics step
StepAfterSwapped(step) ==
    CASE step = "loop" -> "processInput"
      [] step = "processInput" -> "update"
      [] step = "update" -> "physics"
      [] step = "physics" -> "render"
      [] step = "render" -> "loop"

\* the statement of the loop body that follows a statement
\* (main.cpp:150-172)
StepAfter(step) ==
    CASE step = "loop" -> "processInput"
      [] step = "processInput" -> "physics"
      [] step = "physics" -> "update"
      [] step = "update" -> "render"
      [] step = "render" -> "loop"

\* the top of the loop: the window stays open, the frame time is measured
\* and events are polled (main.cpp:150-161)
LoopTop ==
    /\ pc = "loop"
    /\ \E d \in FrameTicks :
         /\ deltaTime' = ClampDelta(d)
         /\ sinceFpsUpdate' = sinceFpsUpdate + d
    /\ iter' = [NoIter EXCEPT !.steps = <<"poll">>]
    /\ pc' = StepAfter("loop")
    /\ UNCHANGED <<m_editorState, cursorMode, m_lockMouseInPlayMode, isPaused,
                   m_raymarchShader, m_rasterShader, escapePressedLastFrame,
                   tabPressedLastFrame, m_sceneAssets, m_selectedAsset,
                   frameCount, fps, shaderVars, texVars, meshVars, lifeVars, fpsVars, bindVars, loadVars, deltaVars, inputVars>>

\* glfwWindowShouldClose: the loop ends (main.cpp:150, 176); no iteration
\* is under way any more
LoopExit ==
    /\ pc = "loop"
    /\ pc' = "exited"
    /\ iter' = NoIter
    /\ UNCHANGED <<m_editorState, cursorMode, m_lockMouseInPlayMode, isPaused,
                   m_raymarchShader, m_rasterShader, escapePressedLastFrame,
                   tabPressedLastFrame, m_sceneAssets, m_selectedAsset,
                   frameCount, sinceFpsUpdate, fps, deltaTime,
                   shaderVars, texVars, meshVars, lifeVars, fpsVars, bindVars, loadVars, deltaVars, inputVars>>

\* a ProcessInput that never reacts to Escape
EscapeIgnored(mode, escape, last) == FALSE

\* the rising edge of Escape that stops the game (Renderer.cpp:555)
EscapeStops(mode, escape, last) == mode = "PLAYING" /\ escape /\ ~last

\* the cursor mode the Editing branch of ProcessInput leaves
\* (Renderer.cpp:565-617)
EditingCursor(rmbDrag, orbitDrag) ==
    IF rmbDrag THEN "DISABLED"
    ELSE IF /\ orbitDrag
            /\ m_selectedAsset >= 0
            /\ m_selectedAsset < Len(m_sceneAssets)
         THEN "DISABLED"
         ELSE "NORMAL"

\* a Playing branch whose Tab handling never touches the cursor
PlayingCursorKept(cursor, tab) == cursor

\* the rising edge of Tab the Playing branch sees (Renderer.cpp:622)
TabFires(tab) == tab /\ ~tabPressedLastFrame

\* the cursor mode the Tab handling of the Playing branch leaves
\* (Renderer.cpp:620-633)
PlayingCursor(cursor, tab) ==
    IF TabFires(tab)
    THEN IF cursor = "DISABLED" THEN "NORMAL"
         ELSE IF m_lockMouseInPlayMode THEN "DISABLED" ELSE cursor
    ELSE cursor

NoInOp == [mode |-> "none", tab |-> FALSE, r |-> FALSE, rmb |-> FALSE,
           orbit |-> FALSE, tabFired |-> FALSE, rFired |-> FALSE,
           reload |-> "none", xoffset |-> 0]

\* what Renderer::ProcessInput does to the mode, the cursor, the key statics
\* and the texture; escape, tab, r: the keys' state; rmbDrag: right button
\* down outside the UI; orbitDrag: Alt + left button down outside it; found:
\* what a reload finds
InputBody(escape, tab, r, rmbDrag, orbitDrag, found) ==
    LET stops == EscapeStops(m_editorState, escape, escapePressedLastFrame)
        mode1 == IF stops THEN "EDITING" ELSE m_editorState
        cursor1 == IF stops THEN "NORMAL" ELSE cursorMode
        loaded == LoadTextureFromDirectories(found)
    IN /\ m_editorState' = mode1
       /\ escapePressedLastFrame' = escape
       /\ IF mode1 = "EDITING"
          THEN /\ cursorMode' = EditingCursor(rmbDrag, orbitDrag)
               /\ UNCHANGED <<tabPressedLastFrame, rPressedLastFrame,
                              texture, textureLoaded>>
          ELSE /\ cursorMode' = PlayingCursor(cursor1, tab)
               /\ tabPressedLastFrame' = tab
               /\ rPressedLastFrame' = r
               /\ IF r /\ ~rPressedLastFrame
                  THEN /\ texture' = loaded.texture
                       /\ textureLoaded' = loaded.textureLoaded
                  ELSE UNCHANGED <<texture, textureLoaded>>

\* Renderer::ProcessInput in the loop of main(); the camera and the pointer
\* are not followed here, so the statics of the two mouse-look blocks stay
\* as they are (InputPoll follows them)
ProcessInput ==
    /\ pc = "processInput"
    /\ \E escape, tab, r, rmbDrag, orbitDrag, found \in BOOLEAN :
         /\ InputBody(escape, tab, r, rmbDrag, orbitDrag, found)
         /\ iter' = [iter EXCEPT
                       !.escape = escape,
                       !.rmbDrag = rmbDrag,
                       !.orbitDrag = orbitDrag,
                       !.escapeFired =
                           EscapeStops(m_editorState, escape,
                                       escapePressedLastFrame),
                       !.tab = m_editorState' = "PLAYING" /\ tab,
                       !.tabFired =
                           m_editorState' = "PLAYING" /\ TabFires(tab),
                       !.reload =
                           IF /\ m_editorState' = "PLAYING"
                              /\ r /\ ~rPressedLastFrame
                           THEN IF found THEN "ok" ELSE "failed"
                           ELSE "none",
                       !.steps = Append(@, "input")]
    /\ pc' = StepAfter("processInput")
    /\ UNCHANGED <<m_lockMouseInPlayMode, isPaused, m_raymarchShader,
                   m_rasterShader, m_sceneAssets, m_selectedAsset, frameCount,
                   sinceFpsUpdate, fps, deltaTime, m_cubeVAO, firstMouse,
                   firstOrbit, lastX, orbitLastX, inOp, shaderVars, texVars,
                   meshVars, lifeVars, fpsVars, bindVars, deltaVars>>

\* Renderer::ProcessInput with the pointer at x (the y coordinate is treated
\* alike): the free-fly block (Renderer.cpp:567-586) or else the orbit block
\* (lines 588-598) takes the offset from its own static lastX, which it sets
\* to x first while its own first-sample static is set
InputPoll ==
    /\ pc = "processInput"
    /\ \E escape, tab, r, rmbDrag, orbitDrag, found \in BOOLEAN,
          x \in 0..MaxPos :
         LET editing == m_editorState' = "EDITING"
             fly == editing /\ rmbDrag
             orbit == /\ editing /\ ~rmbDrag /\ orbitDrag
                      /\ m_selectedAsset >= 0
                      /\ m_selectedAsset < Len(m_sceneAssets)
             fired == ~editing /\ r /\ ~rPressedLastFrame
         IN /\ InputBody(escape, tab, r, rmbDrag, orbitDrag, found)
            /\ firstMouse' = (firstMouse /\ ~fly)
            /\ lastX' = IF fly THEN x ELSE lastX
            /\ firstOrbit' = (firstOrbit /\ ~orbit)
            /\ orbitLastX' = IF orbit THEN x ELSE orbitLastX
            /\ inOp' = [mode |-> m_editorState',
                        tab |-> tab, r |-> r, rmb |-> fly, orbit |-> orbit,
                        tabFired |-> ~editing /\ TabFires(tab),
                        rFired |-> fired,
                        reload |-> IF ~fired THEN "none"
                                   ELSE IF found THEN "ok" ELSE "failed",
                        xoffset |->
                            IF fly
                            THEN x - (IF firstMouse THEN x ELSE lastX)
                            ELSE IF orbit
                            THEN x - (IF firstOrbit THEN x ELSE orbitLastX)
                            ELSE 0]
    /\ pc' = "render"
    /\ UNCHANGED <<m_lockMouseInPlayMode, isPaused, m_raymarchShader,
                   m_rasterShader, m_sceneAssets, m_selectedAsset, frameCount,
                   sinceFpsUpdate, fps, deltaTime, iter, m_cubeVAO,
                   shaderVars, texVars, meshVars, lifeVars, fpsVars,
                   bindVars, deltaVars>>

\* the condition under which main() steps the physics world (main.cpp:165)
StepsPhysics == ~isPaused

\* main.cpp:164-167
PhysicsUpdate ==
    /\ pc = "physics"
    /\ iter' = [iter EXCEPT
                  !.stepped = IF StepsPhysics THEN "yes" ELSE "no",
                  !.modeAtStep = m_editorState,
                  !.steps = IF StepsPhysics THEN Append(@, "physics") ELSE @]
    /\ pc' = StepAfter("physics")
    /\ UNCHANGED <<m_editorState, cursorMode, m_lockMouseInPlayMode, isPaused,
                   m_raymarchShader, m_rasterShader, escapePressedLastFrame,
                   tabPressedLastFrame, m_sceneAssets, m_selectedAsset,
                   frameCount, sinceFpsUpdate, fps, deltaTime, shaderVars,
                   texVars, meshVars, lifeVars, fpsVars, bindVars, loadVars, deltaVars, inputVars>>

\* an Update that lets the window run to twice its length
WindowElapsedLate(elapsed) == elapsed >= 2 * FpsWindow

\* the test that ends an FPS window (Renderer.cpp:469)
WindowElapsed(elapsed) == elapsed >= FpsWindow

\* the body of Renderer::Update when the clock reads elapsed ticks past
\* fpsUpdateTime
UpdateBody(elapsed) ==
    IF WindowElapsed(elapsed)
    THEN /\ fps' = <<frameCount + 1, elapsed>>
         /\ sinceFpsUpdate' = 0
         /\ frameCount' = 0
         /\ updateCalls' = 0
         /\ fpsResets' = IF fpsResets < 2 THEN fpsResets + 1 ELSE fpsResets
    ELSE /\ frameCount' = frameCount + 1
         /\ sinceFpsUpdate' = elapsed
         /\ updateCalls' = updateCalls + 1
         /\ UNCHANGED <<fps, fpsResets>>

\* Renderer::Update
Update ==
    /\ pc = "update"
    /\ UpdateBody(sinceFpsUpdate)
    /\ iter' = [iter EXCEPT !.steps = Append(@, "update")]
    /\ pc' = StepAfter("update")
    /\ UNCHANGED <<m_editorState, cursorMode, m_lockMouseInPlayMode, isPaused,
                   m_raymarchShader, m_rasterShader, escapePressedLastFrame,
                   tabPressedLastFrame, m_sceneAssets, m_selectedAsset,
                   deltaTime, cadence, shaderVars, texVars, meshVars,
                   lifeVars, bindVars, loadVars, deltaVars, inputVars>>

\* the fixed steps of a synthetic clock, in ticks of 1/60 s
Cadences == {1, 2, 3}

\* Renderer::Update called once per step of a clock that advances by
\* cadence between calls
UpdateTick ==
    /\ pc = "init"
    /\ UpdateBody(sinceFpsUpdate + cadence)
    /\ UNCHANGED <<pc, m_editorState, cursorMode, m_lockMouseInPlayMode,
                   isPaused, m_raymarchShader, m_rasterShader,
                   escapePressedLastFrame, tabPressedLastFrame, m_sceneAssets,
                   m_selectedAsset, deltaTime, iter, cadence, shaderVars,
                   texVars, meshVars, lifeVars, bindVars, loadVars, deltaVars, inputVars>>

\* what the user can do in the UI in one frame (Renderer.cpp:317-369):
\* the toolbar shows Play only while Editing and Stop only while Playing
UiEvents ==
    {"none", "import", "importCancelled", "importFailed", "toggleLock"}
      \cup (IF m_editorState = "EDITING" THEN {"play"} ELSE {"stop"})
      \cup (IF Len(m_sceneAssets) > 0 THEN {"select"} ELSE {})

\* the panels RenderUI draws (Renderer.cpp:455-458)
UiPanels == {"toolbar", "stats", "sceneControls", "inspector"}

\* whether the physics-object pass binds the texture (Renderer.cpp:286)
UsesTexture == textureLoaded /\ texture # "null"

\* the guard of the physics-object pass (Renderer.cpp:282)
PhysicsPassRuns == m_rasterShader = "valid"

\* the guard renderPhysicsObjects applies to m_cubeVAO before it draws a
\* body (Renderer.cpp:281-311): none
PhysicsPassChecksCube == FALSE

\* the guard the imported-asset loop applies to the raster shader before it
\* uses it (Renderer.cpp:524-536): none
AssetPassChecksShader == FALSE

\* a Render that does not look at the terrain shader
TerrainPassAlways == TRUE

\* the terrain pass runs (Renderer.cpp:478)
TerrainPassRuns == m_raymarchShader = "valid"

\* an import that yields a Mesh whatever the importer says
LoadMeshAlways(path, sceneOk) == meshesBuilt + 1

\* Renderer::LoadMeshFromFile: 0 for nullptr when the importer yields no
\* scene with meshes, else the Mesh it constructs
LoadMeshFromFile(path, sceneOk) == IF sceneOk THEN meshesBuilt + 1 ELSE 0

\* an Inspector that offers one row too many
SelectableBeyond == 0..Len(m_sceneAssets)

\* the rows of the Inspector (Renderer.cpp:353-356)
SelectableIndices == 0..(Len(m_sceneAssets) - 1)

\* RenderUI: the panels and the effect of the frame's UI event; path is what
\* the file dialog returns
RenderUI(ev, path) ==
    /\ CASE ev = "play" ->
              /\ m_editorState' = "PLAYING"
              /\ cursorMode' = IF m_lockMouseInPlayMode THEN "DISABLED"
                               ELSE cursorMode
              /\ UNCHANGED <<m_lockMouseInPlayMode, m_sceneAssets,
                             m_selectedAsset, meshesBuilt, gpuLive>>
         [] ev = "stop" ->
              /\ m_editorState' = "EDITING"
              /\ cursorMode' = "NORMAL"
              /\ UNCHANGED <<m_lockMouseInPlayMode, m_sceneAssets,
                             m_selectedAsset, meshesBuilt, gpuLive>>
         [] ev \in {"import", "importFailed"} ->
              /\ Len(m_sceneAssets) < MaxAssets
              /\ LET mesh == LoadMeshFromFile(path, ev = "import") IN
                   IF mesh # 0
                   THEN /\ m_sceneAssets' =
                              Append(m_sceneAssets,
                                     [name |-> path, position |-> Origin,
                                      mesh |-> mesh])
                        /\ meshesBuilt' = mesh
                        /\ gpuLive' = gpuLive \cup {MeshObject(mesh)}
                   ELSE UNCHANGED <<m_sceneAssets, meshesBuilt, gpuLive>>
              /\ UNCHANGED <<m_editorState, cursorMode,
                             m_lockMouseInPlayMode, m_selectedAsset>>
         [] ev = "toggleLock" ->
              /\ m_lockMouseInPlayMode' = ~m_lockMouseInPlayMode
              /\ UNCHANGED <<m_editorState, cursorMode, m_sceneAssets,
                             m_selectedAsset, meshesBuilt, gpuLive>>
         [] ev = "select" ->
              /\ \E i \in SelectableIndices : m_selectedAsset' = i
              /\ UNCHANGED <<m_editorState, cursorMode,
                             m_lockMouseInPlayMode, m_sceneAssets,
                             meshesBuilt, gpuLive>>
         [] OTHER ->
              UNCHANGED <<m_editorState, cursorMode, m_lockMouseInPlayMode,
                          m_sceneAssets, m_selectedAsset, meshesBuilt,
                          gpuLive>>

\* the UI pass of a frame in which the toolbar's Play or Stop button is
\* clicked, or nothing (Renderer.cpp:317-330)
UiFrame ==
    /\ pc = "render"
    /\ \E ev \in UiEvents \cap {"none", "play", "stop"} :
         RenderUI(ev, "none")
    /\ pc' = "processInput"
    /\ UNCHANGED <<isPaused, m_raymarchShader, m_rasterShader,
                   escapePressedLastFrame, tabPressedLastFrame, frameCount,
                   sinceFpsUpdate, fps, deltaTime, iter, gpuLate, terminated,
                   shaderVars, texVars, meshVars, fpsVars, bindVars,
                   loadVars, deltaVars, inputVars>>

\* a Render that draws the physics objects under the terrain
PassesPhysicsFirst(terrain, physics) == <<"physics", "terrain", "assets">>

\* the passes of Render up to the asset loop, in the order of its statements
\* (Renderer.cpp:477-537): the fallback clear, or the terrain pass, the
\* physics-object pass unless renderPhysicsObjects returns at once, and the
\* asset loop
ScenePasses(terrain, physics) ==
    IF terrain
    THEN <<"terrain">> \o (IF physics THEN <<"physics">> ELSE <<>>)
                      \o <<"assets">>
    ELSE <<"clear">>

\* Renderer::Render. With assets to draw and no raster shader the asset loop
\* calls use() through a null unique_ptr: undefined behaviour, which either
\* ends the process there or lets the loop go on to Mesh::Draw.
Render ==
    /\ pc = "render"
    /\ \E ev \in UiEvents, path \in ImportPaths, crash \in BOOLEAN :
         LET derefs == /\ TerrainPassRuns
                       /\ Len(m_sceneAssets) > 0
                       /\ ~AssetPassChecksShader
                       /\ m_rasterShader = "null"
             drawn == [iter EXCEPT
                         !.terrainPass = TerrainPassRuns,
                         !.fallbackClear = ~TerrainPassRuns,
                         !.physicsDrawn =
                             IF /\ TerrainPassRuns
                                /\ PhysicsPassRuns
                                /\ (m_cubeVAO # 0 \/ ~PhysicsPassChecksCube)
                             THEN NumDynamicBodies ELSE 0,
                         !.assetsDrawn =
                             IF /\ TerrainPassRuns
                                /\ (m_rasterShader = "valid"
                                      \/ ~AssetPassChecksShader)
                                /\ ~(derefs /\ crash)
                             THEN Len(m_sceneAssets) ELSE 0,
                         !.nullDeref = derefs,
                         !.textured =
                             /\ TerrainPassRuns /\ PhysicsPassRuns
                             /\ UsesTexture,
                         !.steps = Append(@, "render"),
                         !.passes = ScenePasses(TerrainPassRuns,
                                                PhysicsPassRuns)]
         IN IF derefs /\ crash
            THEN /\ iter' = drawn
                 /\ pc' = "crashed"
                 /\ UNCHANGED <<m_editorState, cursorMode,
                                m_lockMouseInPlayMode, m_sceneAssets,
                                m_selectedAsset, meshesBuilt, gpuLive>>
            ELSE /\ derefs \/ ~crash
                 /\ RenderUI(ev, path)
                 /\ iter' = [drawn EXCEPT !.uiEvent = ev,
                                          !.importPath =
                                              IF ev \in {"import",
                                                         "importFailed"}
                                              THEN path ELSE "none",
                                          !.importReported =
                                              ev = "importFailed",
                                          !.panels = UiPanels,
                                          !.presented = TRUE,
                                          !.steps = Append(@, "present"),
                                          !.passes =
                                              @ \o <<"ui", "present">>]
                 /\ pc' = StepAfter("render")
    /\ UNCHANGED <<isPaused, m_raymarchShader, m_rasterShader,
                   escapePressedLastFrame, tabPressedLastFrame, frameCount,
                   sinceFpsUpdate, fps, deltaTime, gpuLate, terminated,
                   shaderVars, texVars, meshVars, fpsVars, bindVars, loadVars, deltaVars, inputVars>>

\* cleanupPhysics() after the loop (main.cpp:181)
CleanupPhysics ==
    /\ pc = "exited"
    /\ pc' = "cleaned"
    /\ UNCHANGED <<m_editorState, cursorMode, m_lockMouseInPlayMode, isPaused,
                   m_raymarchShader, m_rasterShader, escapePressedLastFrame,
                   tabPressedLastFrame, m_sceneAssets, m_selectedAsset,
                   frameCount, sinceFpsUpdate, fps, deltaTime, iter,
                   shaderVars, texVars, meshVars, lifeVars, fpsVars, bindVars, loadVars, deltaVars, inputVars>>

\* what the body of ~Renderer releases before it calls glfwTerminate
\* (Renderer.cpp:93-97)
ReleasedByBody(live) == live \cap (QuadObjects \cup CubeObjects)

\* Renderer::~Renderer as main() returns: the body, which ends with
\* glfwTerminate, and then the destruction of the members: the asset Mesh
\* objects and the Shader objects release their GPU objects only then.  A GL
\* call without a context is undefined: the process ends there or goes on.
RendererDtor ==
    /\ pc = "cleaned"
    /\ LET late == gpuLive \ ReleasedByBody(gpuLive) IN
         /\ gpuLate' = late
         /\ pc' \in (IF late = {} THEN {"done"} ELSE {"done", "crashed"})
    /\ gpuLive' = {}
    /\ terminated' = TRUE
    /\ texture' = "null"
    /\ m_cubeVAO' = 0
    /\ UNCHANGED <<m_editorState, cursorMode, m_lockMouseInPlayMode, isPaused,
                   m_raymarchShader, m_rasterShader, escapePressedLastFrame,
                   tabPressedLastFrame, m_sceneAssets, m_selectedAsset,
                   frameCount, sinceFpsUpdate, fps, deltaTime, iter,
                   meshesBuilt, textureLoaded, shaderVars, texVars, meshVars,
                   fpsVars, bindVars, deltaVars, inputVars>>

MainInit ==
    /\ pc = "init"
    /\ m_editorState = "EDITING"
    /\ cursorMode = "NORMAL"
    /\ m_lockMouseInPlayMode = TRUE
    /\ isPaused = FALSE
    /\ m_raymarchShader = "null"
    /\ m_rasterShader = "null"
    /\ escapePressedLastFrame = FALSE
    /\ tabPressedLastFrame = FALSE
    /\ m_sceneAssets = <<>>
    /\ m_selectedAsset = -1
    /\ frameCount = 0
    /\ fps = <<0, 0>>
    /\ deltaTime = 0
    /\ iter = NoIter
    /\ texture = "null"
    /\ textureLoaded = FALSE
    /\ m_cubeVAO = 0
    /\ rPressedLastFrame = FALSE
    /\ firstMouse = TRUE
    /\ firstOrbit = TRUE
    /\ lastX = MaxPos \div 2
    /\ orbitLastX = MaxPos \div 2
    /\ inOp = NoInOp
    /\ meshesBuilt = 0
    /\ gpuLive = {}
    /\ gpuLate = {}
    /\ terminated = FALSE

\* the running program measures its frame times at the top of the loop
DeltaInit ==
    /\ measured = 0
    /\ handed = NoHanded

\* a frame time to take through the clamp
MeasuredInit ==
    /\ measured \in MeasuredTicks
    /\ handed = NoHanded

\* the clock of the running program: no fixed cadence
ClockInit ==
    /\ sinceFpsUpdate = 0
    /\ cadence = 0
    /\ updateCalls = 0
    /\ fpsResets = 0

\* a synthetic clock with a fixed cadence; the first Update reads either 0
\* or one step
SyntheticClockInit ==
    /\ cadence \in Cadences
    /\ sinceFpsUpdate \in {0, 0 - cadence}
    /\ updateCalls = 0
    /\ fpsResets = 0



(***************************************************************************)
(*                     Properties of the main loop                         *)
(***************************************************************************)
\* the current iteration has gone through Render
Rendered == pc \in {"loop", "crashed"} /\ iter.stepped # "pending"

\* C1: in every iteration of the main loop the physics world is stepped if
\* and only if the editor mode is Playing at that point of the frame; while
\* the mode is Editing no step is issued.
C1_StepsOnlyWhilePlaying ==
    iter.stepped # "pending" =>
        (iter.stepped = "yes" <=> iter.modeAtStep = "PLAYING")

\* C2: when the raster shader failed to load, Render draws no physics object
\* and no scene asset, does not dereference the missing program, and, when
\* the terrain shader is valid, completes the terrain pass and the UI pass
\* and presents the frame.
C2_RasterInvalidSkipsPasses ==
    (Rendered /\ m_rasterShader = "null") =>
        /\ iter.physicsDrawn = 0
        /\ iter.assetsDrawn = 0
        /\ ~iter.nullDeref
        /\ m_raymarchShader = "valid" =>
              /\ iter.terrainPass
              /\ iter.panels # {}
              /\ iter.presented
              /\ pc = "loop"

\* C3: when the terrain shader is missing or invalid, every Render skips the
\* terrain pass, clears to the fallback colour, still runs the UI pass and
\* presents the frame, and the main loop keeps running.
C3_TerrainInvalidFallback ==
    (Rendered /\ m_raymarchShader = "null") =>
        /\ ~iter.terrainPass
        /\ iter.fallbackClear
        /\ iter.physicsDrawn = 0
        /\ iter.panels = UiPanels
        /\ iter.presented
        /\ pc = "loop"

C3_Witness ==
    /\ Rendered
    /\ m_raymarchShader = "null"
    /\ m_rasterShader = "valid"
    /\ iter.fallbackClear
    /\ iter.presented

\* the steps C4 speaks of
PlayAction == pc = "render" /\ iter'.uiEvent = "play"
StopAction == pc = "render" /\ iter'.uiEvent = "stop"
EscapePress ==
    pc = "processInput" /\ iter'.escape /\ ~escapePressedLastFrame

\* an Editing-mode camera drag is held during the ProcessInput call
DragHeld ==
    \/ iter'.rmbDrag
    \/ /\ iter'.orbitDrag
       /\ m_selectedAsset >= 0
       /\ m_selectedAsset < Len(m_sceneAssets)

C4_Common ==
    /\ pc = "init" => m_editorState = "EDITING"
    /\ PlayAction =>
          /\ m_editorState = "EDITING"
          /\ m_editorState' = "PLAYING"
          /\ m_lockMouseInPlayMode => cursorMode' = "DISABLED"
    /\ (StopAction /\ m_editorState = "PLAYING") =>
          /\ m_editorState' = "EDITING"
          /\ cursorMode' = "NORMAL"
    /\ (EscapePress /\ m_editorState = "PLAYING") =>
          m_editorState' = "EDITING"
    /\ ((StopAction \/ EscapePress) /\ m_editorState = "EDITING") =>
          m_editorState' = "EDITING"
    /\ m_editorState' # m_editorState =>
          PlayAction \/ StopAction \/ EscapePress

\* C4 as stated: the mode starts as Editing; Play in Editing moves to Playing
\* and, with lock-mouse enabled, captures the pointer; Stop or an Escape
\* press in Playing moves to Editing and sets the pointer to normal;
\* Stop/Escape in Editing leaves Editing; nothing else changes the mode.
C4_AsStated ==
    [][/\ C4_Common
       /\ (EscapePress /\ m_editorState = "PLAYING") =>
             cursorMode' = "NORMAL"]_vars

\* C4: as above, except that an Escape press leaves the pointer normal only
\* when no Editing-mode camera drag (right button, or Alt + left button with
\* an asset selected) is held in the same ProcessInput call; with such a
\* drag held the pointer ends captured.
C4_ModeTransitions ==
    [][/\ C4_Common
       /\ (EscapePress /\ m_editorState = "PLAYING") =>
             cursorMode' = IF DragHeld THEN "DISABLED" ELSE "NORMAL"]_vars

C4_Witness ==
    /\ pc = "physics"
    /\ iter.escapeFired
    /\ iter.rmbDrag
    /\ m_editorState = "EDITING"
    /\ cursorMode = "DISABLED"

\* the step is main()'s call of Initialize
InitializeStep == pc = "init" /\ pc' # "init"

\* C21: only a failure of GLFW, window or context creation or of the GL
\* loader aborts startup: Initialize then returns false with no GPU object
\* created and the main loop never runs; a shader or the texture that fails
\* to load leaves its pointer null, Initialize returns true and the loop runs.
C21_OnlyContextFailureAborts ==
    [][/\ InitializeStep =>
             LET s == iter'.startup IN
             /\ pc' \in {"aborted", "loop"}
             /\ pc' = "aborted" <=> s.context # "ok"
             /\ pc' = "aborted" =>
                   /\ gpuLive' = {}
                   /\ meshesBuilt' = 0
                   /\ m_raymarchShader' = "null"
                   /\ m_rasterShader' = "null"
                   /\ texture' = "null"
             /\ s.context = "ok" =>
                   /\ pc' = "loop"
                   /\ m_raymarchShader' = "null" <=> ~s.ray
                   /\ m_rasterShader' = "null" <=> ~s.raster
                   /\ texture' = "null" <=> ~s.texture
       /\ pc = "aborted" => pc' = "aborted"]_vars

C21_Witness ==
    /\ pc = "loop"
    /\ iter.startup.context = "ok"
    /\ ~iter.startup.ray
    /\ ~iter.startup.raster
    /\ ~iter.startup.texture
    /\ m_raymarchShader = "null"
    /\ m_rasterShader = "null"
    /\ texture = "null"

\* the steps of one iteration, in order; took: the physics step is taken
IterationOrder(took) ==
    <<"poll", "input">> \o (IF took THEN <<"physics">> ELSE <<>>)
                        \o <<"update", "render", "present">>

IsPrefix(s, t) == Len(s) <= Len(t) /\ s = SubSeq(t, 1, Len(s))

\* the steps an iteration has run so far are the first ones of the order
StepsInOrder(it) ==
    IF it.stepped = "pending"
    THEN IsPrefix(it.steps, <<"poll", "input">>)
    ELSE /\ IsPrefix(it.steps, IterationOrder(it.stepped = "yes"))
         /\ Len(it.steps) >= 2

\* the iteration has run all its steps
IterationComplete(it) ==
    it.stepped # "pending" /\ it.steps = IterationOrder(it.stepped = "yes")

\* C22: in every iteration the steps poll, ProcessInput, physics step (when
\* taken), Update, Render and presentation run once each, in this order,
\* and an iteration starts only when the previous one, if any, has
\* presented.
C22_StepsInOrder ==
    [][/\ StepsInOrder(iter')
       /\ Len(iter'.steps) > Len(iter.steps) =>
             iter.steps = SubSeq(iter'.steps, 1, Len(iter.steps))
       /\ (pc' = "loop" /\ pc \notin {"init", "loop"}) =>
             IterationComplete(iter')
       /\ (pc = "loop" /\ iter'.steps # <<>>) =>
             /\ iter'.steps = <<"poll">>
             /\ iter.steps = <<>> \/ IterationComplete(iter)
             /\ iter.steps = <<>> => iter.startup.context = "ok"]_vars

C22_Witness ==
    /\ pc = "processInput"
    /\ iter.steps = <<"poll">>
    /\ m_sceneAssets # <<>>

\* the step is a Render call
RenderStep == pc = "render" /\ pc' # "render"

\* C23: with both shader programs valid, a Render call performs the terrain
\* pass, the physics-object pass, the imported-asset pass and the UI pass
\* and then presents the frame, each once and in that order.
C23_PassesInOrder ==
    [][(RenderStep /\ m_raymarchShader = "valid" /\ m_rasterShader = "valid")
          => /\ iter'.passes =
                   <<"terrain", "physics", "assets", "ui", "present">>
             /\ iter'.terrainPass
             /\ iter'.physicsDrawn = NumDynamicBodies
             /\ iter'.assetsDrawn = Len(m_sceneAssets)
             /\ iter'.panels # {}
             /\ iter'.presented
             /\ pc' = "loop"]_vars

C23_Witness ==
    /\ pc = "loop"
    /\ m_raymarchShader = "valid"
    /\ m_rasterShader = "valid"
    /\ iter.passes = <<"terrain", "physics", "assets", "ui", "present">>
    /\ iter.assetsDrawn = 2

C29_FivePanels ==
    iter.panels # {} =>
        iter.panels = {"toolbar", "stats", "sceneControls", "inspector",
                       "hierarchy"}

\* C38: a terrain-shader failure suppresses only the terrain pass: with the
\* terrain shader invalid and the raster shader valid, Render still draws
\* the physics objects and the imported scene assets before the UI pass.
C38_TerrainFailureKeepsScene ==
    (Rendered /\ m_raymarchShader = "null" /\ m_rasterShader = "valid") =>
        /\ ~iter.terrainPass
        /\ iter.physicsDrawn = NumDynamicBodies
        /\ iter.assetsDrawn = Len(m_sceneAssets)
        /\ iter.panels # {}

\* C35: as long as the Renderer exists, textureLoaded is true if and only
\* if the texture pointer is non-null; a manual reload in which no candidate
\* file loads leaves the Renderer with no texture, the one loaded before is
\* not kept, and the physics passes that follow draw untextured.
C35_FlagMatchesPointer ==
    [][/\ ~terminated' => (textureLoaded' <=> texture' # "null")
       /\ (pc = "processInput" /\ iter'.reload = "failed") =>
             /\ texture' = "null"
             /\ ~textureLoaded'
             /\ ~UsesTexture'
       /\ (pc = "render" /\ texture = "null") => ~iter'.textured]_vars

\* a physics pass drew untextured in the frame of a manual reload that found
\* nothing
C35_Witness ==
    /\ Rendered
    /\ pc = "loop"
    /\ iter.reload = "failed"
    /\ iter.physicsDrawn > 0
    /\ ~iter.textured
    /\ texture = "null"
    /\ ~textureLoaded

\* the step is a ProcessInput call that runs the Playing branch
PlayingPoll ==
    pc = "processInput" /\ pc' = "physics" /\ m_editorState' = "PLAYING"

\* the step is a Playing-mode ProcessInput call that sees Tab go down
TabPress == PlayingPoll /\ iter'.tabFired

Flipped(cursor) == IF cursor = "DISABLED" THEN "NORMAL" ELSE "DISABLED"

\* C16 as stated: while Playing, each Tab press flips pointer capture
\* (captured to normal, normal to captured) and leaves the mode Playing.
C16_AsStated ==
    [][TabPress =>
          /\ m_editorState' = "PLAYING"
          /\ cursorMode' = Flipped(cursorMode)]_vars

\* C16: while Playing, a Tab press (Tab down at this poll and up at the
\* previous Playing-mode poll) leaves the mode Playing, turns a captured
\* pointer normal, and turns a normal pointer captured only when lock-mouse
\* is enabled; with lock-mouse disabled a normal pointer stays normal. A
\* Playing-mode poll without a Tab press leaves the pointer as it was.
C16_TabToggles ==
    [][/\ TabPress =>
             /\ m_editorState = "PLAYING"
             /\ m_editorState' = "PLAYING"
             /\ cursorMode' = IF cursorMode = "DISABLED" THEN "NORMAL"
                              ELSE IF m_lockMouseInPlayMode THEN "DISABLED"
                              ELSE "NORMAL"
       /\ (PlayingPoll /\ ~iter'.tabFired) => cursorMode' = cursorMode]_vars

C16_Witness ==
    /\ pc = "physics"
    /\ iter.tabFired
    /\ m_editorState = "PLAYING"
    /\ ~m_lockMouseInPlayMode
    /\ cursorMode = "NORMAL"

\* the step is a Render whose UI event is an import
ImportStep(ev) == pc = "render" /\ pc' = "loop" /\ iter'.uiEvent = ev

\* C13: a successful import appends exactly one Scene Asset, named by the
\* given path, at the origin, with its own newly constructed Mesh; an import
\* for which the importer returns no mesh leaves the registry unchanged and
\* reports the failure, without a retry.
C13_ImportAppendsOne ==
    [][/\ ImportStep("import") =>
             /\ Len(m_sceneAssets') = Len(m_sceneAssets) + 1
             /\ SubSeq(m_sceneAssets', 1, Len(m_sceneAssets)) = m_sceneAssets
             /\ LET new == m_sceneAssets'[Len(m_sceneAssets')] IN
                  /\ new.name = iter'.importPath
                  /\ new.name \in ImportPaths
                  /\ new.position = Origin
                  /\ new.mesh > meshesBuilt
                  /\ \A i \in 1..Len(m_sceneAssets) :
                        m_sceneAssets[i].mesh # new.mesh
                  /\ meshesBuilt' = meshesBuilt + 1
                  /\ gpuLive' = gpuLive \cup {MeshObject(new.mesh)}
                  /\ MeshObject(new.mesh) \notin gpuLive
       /\ ImportStep("importFailed") =>
             /\ m_sceneAssets' = m_sceneAssets
             /\ iter'.importReported
             /\ meshesBuilt' = meshesBuilt
             /\ gpuLive' = gpuLive]_vars

C13_Witness ==
    /\ pc = "loop"
    /\ iter.uiEvent = "importFailed"
    /\ iter.importReported
    /\ iter.importPath = "model.obj"
    /\ Len(m_sceneAssets) = 1
    /\ m_sceneAssets[1].name = "scene.fbx"

SelectionValid ==
    m_selectedAsset = -1
      \/ (m_selectedAsset >= 0 /\ m_selectedAsset < Len(m_sceneAssets))

\* C14: the selected-asset index is always -1 or a valid index into the
\* registry, and the registry is append-only: an entry at index i stays at
\* index i with the same name and Mesh.
C14_RegistryStable ==
    [][/\ SelectionValid
       /\ SelectionValid'
       /\ Len(m_sceneAssets') >= Len(m_sceneAssets)
       /\ \A i \in 1..Len(m_sceneAssets) :
             /\ m_sceneAssets'[i].name = m_sceneAssets[i].name
             /\ m_sceneAssets'[i].mesh = m_sceneAssets[i].mesh]_vars

C14_Witness ==
    /\ Len(m_sceneAssets) = 2
    /\ m_selectedAsset = 0
    /\ m_sceneAssets[1].name # m_sceneAssets[2].name
    /\ iter.uiEvent = "import"

\* C20: at shutdown every GPU object release performed by the Renderer and
\* the objects it owns happens before the window/GPU context is terminated;
\* no GPU release call is issued after termination.
C20_ReleasesBeforeTerminate ==
    /\ gpuLate = {}
    /\ terminated => gpuLive = {}

(***************************************************************************)
(*                             Textures.cpp                                *)
(***************************************************************************)
Paths == {"a", "b"}

TexNames == 1..MaxTexName

Mtimes == 1..MaxMtime

\* what stbi_load reports for a file: 0 stands for a NULL result (the file
\* cannot be decoded), 1..4 for the channel count of the decoded image
Channels == 0..4

\* the images the model lets a path hold: undecodable, two-channel or RGB at
\* "a" (1 and 4 channels differ from 3 only in the format), RGB at "b"
FileChannels(p) == IF p = "a" THEN {0, 2, 3} ELSE {3}

\* the paths whose file is written or removed while the program runs
Mutable == {"a"}

NoFile == [exists |-> FALSE, mtime |-> 1, chan |-> 0]

\* std::unordered_map operations
Put(m, k, v) == [q \in DOMAIN m \cup {k} |-> IF q = k THEN v ELSE m[q]]

Erase(m, k) == [q \in DOMAIN m \ {k} |-> m[q]]

EmptyMap == [q \in {} |-> 0]

\* the sequence s without its i-th element
Without(s, i) == [j \in 1..(Len(s) - 1) |-> IF j < i THEN s[j] ELSE s[j + 1]]

\* the record an operation works on: the instance's ID, the two maps and the
\* GL texture set as the code updates them, and a log of what it did
OpStart(name, path, useCache) ==
    [name |-> name, inst |-> 0, path |-> path, useCache |-> useCache,
     mtime |-> IF files[path].exists THEN files[path].mtime ELSE 0,
     ID |-> 0, ok |-> FALSE, hit |-> FALSE, done |-> FALSE,
     cache |-> textureCache, stamps |-> textureTimestamps,
     textures |-> glTextures,
     hadEntry |-> IF path \in DOMAIN textureCache
                  THEN textureCache[path] ELSE 0,
     decodes |-> 0, uploads |-> 0, channels |-> 0,
     released |-> {}, generated |-> {}, erased |-> FALSE, stored |-> FALSE]

\* what is kept of an operation in texOp
OpLog(r) ==
    [name |-> r.name, inst |-> r.inst, path |-> r.path,
     useCache |-> r.useCache, mtime |-> r.mtime, ID |-> r.ID, ok |-> r.ok,
     hit |-> r.hit, hadEntry |-> r.hadEntry, decodes |-> r.decodes,
     uploads |-> r.uploads, channels |-> r.channels,
     released |-> r.released, generated |-> r.generated,
     erased |-> r.erased, stored |-> r.stored, deleteCalls |-> EmptyMap]

NoTexOp ==
    [name |-> "none", inst |-> 0, path |-> "none", useCache |-> FALSE,
     mtime |-> 0, ID |-> 0, ok |-> FALSE, hit |-> FALSE, hadEntry |-> 0,
     decodes |-> 0, uploads |-> 0, channels |-> 0,
     released |-> {}, generated |-> {}, erased |-> FALSE, stored |-> FALSE,
     deleteCalls |-> EmptyMap]

\* std::filesystem::exists(path)
FileExists(path) == files[path].exists

\* an stbi_load that always returns data
DecodeAlways(path) == TRUE

\* stbi_load returned data
DecodeOk(path) == files[path].exists /\ files[path].chan # 0

\* the format LoadTextureData picks from nrChannels
Format(nrChannels) ==
    CASE nrChannels = 1 -> "GL_RED"
      [] nrChannels = 3 -> "GL_RGB"
      [] nrChannels = 4 -> "GL_RGBA"
      [] OTHER -> "GL_RGB"

\* whether LoadTextureData goes on to upload an image of nrChannels channels:
\* the branch for any other count than 1, 3, 4 logs and falls through
UploadsChannels(nrChannels) == TRUE

\* Texture::LoadTextureData, n being the name glGenTextures returns
LoadTextureData(st, path, addToCache, n) ==
    LET decoded == [st EXCEPT !.decodes = @ + 1, !.done = TRUE] IN
    IF DecodeOk(path) /\ UploadsChannels(files[path].chan)
    THEN LET up == [decoded EXCEPT
                      !.channels = files[path].chan,
                      !.ID = n,
                      !.textures = @ \cup {n},
                      !.generated = @ \cup {n},
                      !.uploads = @ + 1,
                      !.ok = TRUE]
         IN IF addToCache
            THEN [up EXCEPT !.cache = Put(@, path, n), !.stored = TRUE]
            ELSE up
    ELSE [decoded EXCEPT
            !.channels = IF DecodeOk(path) THEN files[path].chan ELSE 0,
            !.ok = FALSE]

\* a comparison that takes every cache entry for fresh
AlwaysFresh(stamp, current) == TRUE

\* the comparison that makes a cache entry a hit
CacheFresh(stamp, current) == stamp = current

\* whether the constructor looks at the cache at all
ConsultsCache(useCache) == useCache

\* Texture::Texture up to the call of LoadTextureData
TextureCtorPre(path, useCache) ==
    LET st == OpStart("construct", path, useCache) IN
    IF ~FileExists(path) THEN [st EXCEPT !.done = TRUE]
    ELSE
    LET currentTimestamp == files[path].mtime
        found == /\ path \in DOMAIN textureCache
                 /\ path \in DOMAIN textureTimestamps
        checked ==
            IF ConsultsCache(useCache) /\ found
            THEN IF CacheFresh(textureTimestamps[path], currentTimestamp)
                 THEN [st EXCEPT !.ID = textureCache[path], !.hit = TRUE,
                                 !.ok = TRUE, !.done = TRUE]
                 ELSE [st EXCEPT
                         !.textures = @ \ {textureCache[path]},
                         !.released = @ \cup {textureCache[path]},
                         !.cache = Erase(@, path),
                         !.erased = TRUE]
            ELSE st
    IN IF checked.done THEN checked
       ELSE [checked EXCEPT !.stamps = Put(@, path, currentTimestamp)]

\* the names glGenTextures may return when LoadTextureData runs from st:
\* any name not in use
GenChoices(st, path) ==
    IF DecodeOk(path) /\ UploadsChannels(files[path].chan)
    THEN TexNames \ st.textures
    ELSE {0}

\* what the live textures hold after glTexImage2D uploaded the file read at
\* modification time mtime into each of the names in generated
Uploads(live, generated, mtime) ==
    [h \in live |-> IF h \in generated THEN mtime ELSE uploadedAt[h]]

Commit(r) ==
    /\ glTextures' = r.textures
    /\ textureCache' = r.cache
    /\ textureTimestamps' = r.stamps
    /\ texOp' = OpLog(r)
    /\ uploadedAt' = Uploads(r.textures, r.generated, r.mtime)

\* new Texture(path, useCache); a constructor that throws leaves no instance
TexConstruct ==
    /\ Len(texInst) < MaxTexInst
    /\ \E path \in Paths, useCache \in BOOLEAN :
         LET pre == TextureCtorPre(path, useCache) IN
         \E n \in (IF pre.done THEN {0} ELSE GenChoices(pre, path)) :
           LET r == IF pre.done THEN pre
                    ELSE LoadTextureData(pre, path, useCache, n)
           IN /\ Commit(r)
              /\ texInst' = IF r.ok
                            THEN Append(texInst,
                                        [ID |-> r.ID, texturePath |-> path])
                            ELSE texInst
    /\ UNCHANGED <<files, shaderVars, mainVars, meshVars, lifeVars, fpsVars, bindVars, loadVars, deltaVars, inputVars>>

\* a destructor that deletes the texture of its instance
DtorReleasesOwn(t) == {t.ID} \ {0}

\* the handles Texture::~Texture passes to glDeleteTextures: its body is
\* empty
DtorReleases(t) == {}

\* Texture::~Texture
TexDestroy(i) ==
    /\ texInst' = Without(texInst, i)
    /\ glTextures' = glTextures \ DtorReleases(texInst[i])
    /\ uploadedAt' = Uploads(glTextures', {}, 0)
    /\ texOp' = [NoTexOp EXCEPT !.name = "destroy", !.inst = i,
                                !.path = texInst[i].texturePath,
                                !.ID = texInst[i].ID,
                                !.released = DtorReleases(texInst[i])]
    /\ UNCHANGED <<files, textureCache, textureTimestamps,
                   shaderVars, mainVars, meshVars, lifeVars, fpsVars, bindVars, loadVars, deltaVars, inputVars>>

\* a Reload that takes every handle for its own
SharedNever(t) == FALSE

\* whether another cache entry holds the instance's handle (Reload)
SharedElsewhere(t) ==
    \E q \in DOMAIN textureCache :
        q # t.texturePath /\ textureCache[q] = t.ID

\* Texture::Reload up to the call of LoadTextureData
ReloadPre(i, path) ==
    LET t == texInst[i]
        st == [OpStart("reload", path, TRUE) EXCEPT !.inst = i]
        dropped == IF t.ID # 0 /\ ~SharedElsewhere(t)
                   THEN [st EXCEPT !.textures = @ \ {t.ID},
                                   !.released = @ \cup {t.ID}]
                   ELSE st
        erased == [dropped EXCEPT
                     !.cache = Erase(@, t.texturePath),
                     !.stamps = Erase(@, t.texturePath),
                     !.erased = t.texturePath \in DOMAIN textureCache]
    IN IF ~FileExists(path) THEN [erased EXCEPT !.done = TRUE]
       ELSE [erased EXCEPT !.stamps = Put(@, path, files[path].mtime)]

\* Texture::Reload
TexReload(i) ==
    /\ \E path \in Paths :
         LET pre == ReloadPre(i, path) IN
         \E n \in (IF pre.done THEN {0} ELSE GenChoices(pre, path)) :
           LET r == IF pre.done THEN pre
                    ELSE LoadTextureData(pre, path, TRUE, n)
           IN /\ Commit(r)
              /\ texInst' = [texInst EXCEPT ![i] =
                               [ID |-> r.ID, texturePath |-> path]]
    /\ UNCHANGED <<files, shaderVars, mainVars, meshVars, lifeVars, fpsVars, bindVars, loadVars, deltaVars, inputVars>>

\* a ClearCache whose loop deletes nothing
DeleteCallsNone(cache) == EmptyMap

\* the loop of Texture::ClearCache: how many glDeleteTextures calls each
\* handle gets, one per cache entry with a nonzero value
DeleteCalls(cache) ==
    [h \in {cache[q] : q \in DOMAIN cache} \ {0} |->
        Cardinality({q \in DOMAIN cache : cache[q] = h})]

\* Texture::ClearCache, also all that Texture::ForceReloadAll does to the maps
ClearCache(name) ==
    LET calls == DeleteCalls(textureCache) IN
    /\ glTextures' = glTextures \ DOMAIN calls
    /\ uploadedAt' = Uploads(glTextures', {}, 0)
    /\ textureCache' = EmptyMap
    /\ textureTimestamps' = EmptyMap
    /\ texOp' = [NoTexOp EXCEPT !.name = name, !.released = DOMAIN calls,
                                !.deleteCalls = calls]
    /\ UNCHANGED <<files, texInst, shaderVars, mainVars, meshVars, lifeVars, fpsVars, bindVars, loadVars, deltaVars, inputVars>>

TexClearCache == ClearCache("ClearCache")

TexForceReloadAll == ClearCache("ForceReloadAll")

\* the environment: a file is written (new modification time, possibly a
\* different image), created or removed
FileWrite(p) ==
    /\ \E m \in Mtimes, c \in FileChannels(p) :
         /\ files[p].exists => m # files[p].mtime
         /\ files' = [files EXCEPT ![p] =
                        [exists |-> TRUE, mtime |-> m, chan |-> c]]
    /\ UNCHANGED <<glTextures, textureCache, textureTimestamps, texInst,
                   texOp, uploadedAt, shaderVars, mainVars, meshVars, lifeVars, fpsVars, bindVars, loadVars, deltaVars, inputVars>>

FileRemove(p) ==
    /\ files[p].exists
    /\ files' = [files EXCEPT ![p] = NoFile]
    /\ UNCHANGED <<glTextures, textureCache, textureTimestamps, texInst,
                   texOp, uploadedAt, shaderVars, mainVars, meshVars, lifeVars, fpsVars, bindVars, loadVars, deltaVars, inputVars>>

TexInit ==
    /\ files = [p \in Paths |->
                  IF p \in Mutable THEN NoFile
                  ELSE [exists |-> TRUE, mtime |-> 1, chan |-> 3]]
    /\ glTextures = {}
    /\ textureCache = EmptyMap
    /\ textureTimestamps = EmptyMap
    /\ texInst = <<>>
    /\ texOp = NoTexOp
    /\ uploadedAt = EmptyMap

TexNext ==
    \/ TexConstruct
    \/ \E i \in 1..Len(texInst) : TexDestroy(i)
    \/ \E i \in 1..Len(texInst) : TexReload(i)
    \/ TexClearCache
    \/ TexForceReloadAll
    \/ \E p \in Mutable : FileWrite(p)
    \/ \E p \in Mutable : FileRemove(p)

(***************************************************************************)
(*                  Texture::Bind, Unbind, EnableDebug                     *)
(***************************************************************************)
\* the texture units the callers use
Slots == {0, 1}

\* the Texture instances that are bound and unbound
BindInstances == {1, 2}

\* the handle of a texture that some LoadTextureData call uploads
LoadedHandles == {3}

NoBindOp == [name |-> "none", inst |-> 0, slot |-> 0, skipped |-> FALSE]

\* the early return of Bind (Textures.cpp:119-126)
BindSkips(t, slot) == debugEnabled /\ t.isBound /\ t.lastBoundSlot = slot

\* Texture::Bind
TexBind(i, slot) ==
    LET t == bindInst[i] IN
    /\ debugEnabled => totalBindCalls < MaxBindCalls
    /\ totalBindCalls' = IF debugEnabled THEN totalBindCalls + 1
                         ELSE totalBindCalls
    /\ activeBindings' = IF debugEnabled /\ ~t.isBound
                         THEN activeBindings + 1 ELSE activeBindings
    /\ IF BindSkips(t, slot)
       THEN UNCHANGED <<glActiveUnit, glBound, bindInst>>
       ELSE /\ glActiveUnit' = slot
            /\ glBound' = [glBound EXCEPT ![slot] = t.ID]
            /\ bindInst' = [bindInst EXCEPT ![i].isBound = TRUE,
                                            ![i].lastBoundSlot = slot]
    /\ bindOp' = [name |-> "Bind", inst |-> i, slot |-> slot,
                  skipped |-> BindSkips(t, slot)]
    /\ UNCHANGED <<debugEnabled, shaderVars, texVars, mainVars, meshVars,
                   lifeVars, fpsVars, loadVars, deltaVars, inputVars>>

\* Texture::Unbind: unbinds whatever the active unit holds
TexUnbind(i) ==
    /\ activeBindings' = IF debugEnabled /\ bindInst[i].isBound
                         THEN activeBindings - 1 ELSE activeBindings
    /\ glBound' = [glBound EXCEPT ![glActiveUnit] = 0]
    /\ bindInst' = [bindInst EXCEPT ![i].isBound = FALSE]
    /\ bindOp' = [NoBindOp EXCEPT !.name = "Unbind", !.inst = i]
    /\ UNCHANGED <<debugEnabled, glActiveUnit, totalBindCalls, shaderVars, texVars, mainVars, meshVars,
                   lifeVars, fpsVars, loadVars, deltaVars, inputVars>>

\* Texture::EnableDebug
TexEnableDebug(enable) ==
    /\ debugEnabled' = enable
    /\ totalBindCalls' = IF enable THEN 0 ELSE totalBindCalls
    /\ activeBindings' = IF enable THEN 0 ELSE activeBindings
    /\ bindOp' = [NoBindOp EXCEPT !.name = "EnableDebug"]
    /\ UNCHANGED <<glActiveUnit, glBound, bindInst, shaderVars, texVars, mainVars, meshVars,
                   lifeVars, fpsVars, loadVars, deltaVars, inputVars>>

\* the glBindTexture of LoadTextureData (Textures.cpp:80): the texture just
\* generated is bound on the active unit
TexLoadBind(h) ==
    /\ glBound' = [glBound EXCEPT ![glActiveUnit] = h]
    /\ bindOp' = [NoBindOp EXCEPT !.name = "LoadTextureData"]
    /\ UNCHANGED <<debugEnabled, glActiveUnit, bindInst, totalBindCalls,
                   activeBindings, shaderVars, texVars, mainVars, meshVars,
                   lifeVars, fpsVars, loadVars, deltaVars, inputVars>>

\* debug off (Textures.cpp:7), nothing bound, two textures constructed
BindInit ==
    /\ debugEnabled = FALSE
    /\ glActiveUnit = 0
    /\ glBound = [u \in Slots |-> 0]
    /\ bindInst = [i \in BindInstances |->
                     [ID |-> i, isBound |-> FALSE, lastBoundSlot |-> 0]]
    /\ bindOp = NoBindOp
    /\ totalBindCalls = 0
    /\ activeBindings = 0

BindNext ==
    \/ \E i \in BindInstances, slot \in Slots : TexBind(i, slot)
    \/ \E i \in BindInstances : TexUnbind(i)
    \/ \E enable \in BOOLEAN : TexEnableDebug(enable)
    \/ \E h \in LoadedHandles : TexLoadBind(h)

\* C19: after Bind(slot) returns, the active texture unit is slot and the
\* texture bound on it is the instance's handle, whatever the debug setting
\* and whatever was bound to the unit since the instance's previous Bind.
C19_BindBinds ==
    [][bindOp'.name = "Bind" =>
          /\ glActiveUnit' = bindOp'.slot
          /\ glBound'[bindOp'.slot] = bindInst'[bindOp'.inst].ID]_vars

\* the Texture instances whose bound flag is set
BoundInstances == {i \in BindInstances : bindInst[i].isBound}

\* C37: activeBindings is never negative and, while debug is enabled, equals
\* the number of Texture instances whose bound flag is set, after any
\* sequence of Bind, Unbind and EnableDebug calls.
C37_ActiveBindingsCounts ==
    /\ activeBindings >= 0
    /\ debugEnabled => activeBindings = Cardinality(BoundInstances)

InitTex ==
    ShaderInit /\ TexInit /\ MainInit /\ MeshInit /\ ClockInit /\ BindInit /\ DeltaInit

SpecTex == InitTex /\ [][TexNext]_vars

(***************************************************************************)
(*                        Properties of Texture                            *)
(***************************************************************************)
\* the step is a Texture construction (its log is texOp')
ConstructStep == texOp'.name = "construct" /\ files' = files

\* the step is a cached construction that directly follows a successful
\* cached construction for the same path
SecondCachedConstruct ==
    /\ texOp.name = "construct"
    /\ texOp.useCache
    /\ texOp.ok
    /\ ConstructStep
    /\ texOp'.useCache
    /\ texOp'.path = texOp.path
    /\ texOp'.mtime # 0

\* the step destroys a Texture instance
DestroyStep ==
    /\ texOp'.name = "destroy"
    /\ files' = files
    /\ Len(texInst') = Len(texInst) - 1

\* the instances that hold handle h
Holders(insts, h) == {j \in 1..Len(insts) : insts[j].ID = h}

\* C26: destroying a Texture instance releases no GPU handle and changes
\* neither cache map, so the handle of any other instance stays as live as
\* it was, and a cached construction for the unmodified path that follows
\* reuses the cached handle, which is live.
C26_DestroyReleasesNothing ==
    [][/\ DestroyStep =>
            /\ glTextures' = glTextures
            /\ texOp'.released = {}
            /\ textureCache' = textureCache
            /\ textureTimestamps' = textureTimestamps
            /\ texInst' = Without(texInst, texOp'.inst)
       /\ (/\ texOp.name = "destroy"
           /\ ConstructStep
           /\ texOp'.path = texOp.path
           /\ texOp'.hit) =>
            /\ texOp'.ID = textureCache[texOp.path]
            /\ texOp'.ID \in glTextures'
            /\ texOp'.generated = {} /\ texOp'.released = {}]_vars

\* an instance was destroyed while another one shares its live handle and
\* the cache still names it
C26_Witness ==
    /\ texOp.name = "destroy"
    /\ texOp.ID # 0
    /\ texOp.ID \in glTextures
    /\ Holders(texInst, texOp.ID) # {}
    /\ texOp.path \in DOMAIN textureCache
    /\ textureCache[texOp.path] = texOp.ID
    /\ \E j \in Holders(texInst, texOp.ID) :
          texInst[j].texturePath = texOp.path

\* C30: whenever a cached Texture construction reuses a cached handle, that
\* handle was uploaded from the version of the file that has the current
\* modification time of the file, after any interleaving of cached and
\* uncached constructions, failed loads and file modifications.
C30_ReusedHandleIsCurrent ==
    [][(ConstructStep /\ texOp'.useCache /\ texOp'.hit) =>
          /\ texOp'.ID \in DOMAIN uploadedAt
          /\ uploadedAt[texOp'.ID] = files[texOp'.path].mtime]_vars

\* C31: no live Texture instance holds a nonzero handle that has been
\* released: the handle a live instance passes to Bind is still allocated,
\* after any sequence of constructions, invalidations of stale entries,
\* Reload calls on other instances and ClearCache or ForceReloadAll.
C31_NoDanglingHandle ==
    \A i \in 1..Len(texInst) :
        texInst[i].ID # 0 => texInst[i].ID \in glTextures

\* the handles that a cache entry or a live instance refers to
Referenced(cache, insts) ==
    {cache[q] : q \in DOMAIN cache} \cup {insts[j].ID : j \in 1..Len(insts)}

\* the step is a construction or a Reload
LoadStep == texOp'.name \in {"construct", "reload"} /\ files' = files

\* C32: a construction or a Reload never overwrites or erases a cache entry
\* without releasing the handle it held, and so leaves no allocated handle
\* that neither a cache entry nor a live instance refers to: every handle
\* it generates is referred to afterwards, and every handle that was
\* referred to and is still allocated is still referred to.
C32_NoOrphanedHandle ==
    [][LoadStep =>
         /\ \A q \in DOMAIN textureCache :
               (q \notin DOMAIN textureCache'
                  \/ textureCache'[q] # textureCache[q])
                 => textureCache[q] \notin glTextures'
         /\ texOp'.generated
               \subseteq Referenced(textureCache', texInst')
         /\ (Referenced(textureCache, texInst) \cap glTextures')
               \subseteq Referenced(textureCache', texInst')]_vars

\* the step is a ClearCache or a ForceReloadAll
ClearStep ==
    texOp'.name \in {"ClearCache", "ForceReloadAll"} /\ files' = files

\* the step is a cached construction for an existing file that directly
\* follows a ClearCache or a ForceReloadAll
ConstructAfterClear ==
    /\ texOp.name \in {"ClearCache", "ForceReloadAll"}
    /\ ConstructStep
    /\ texOp'.useCache
    /\ texOp'.mtime # 0

\* C18: ClearCache and ForceReloadAll release every handle held in the
\* cache exactly once and leave the handle map and the timestamp map empty;
\* the next cached construction, for any path, decodes from disk.
C18_ClearCacheReleasesAll ==
    [][/\ ClearStep =>
             LET held == {textureCache[q] : q \in DOMAIN textureCache} IN
             /\ DOMAIN texOp'.deleteCalls = held
             /\ \A h \in held : texOp'.deleteCalls[h] = 1
             /\ held \subseteq glTextures
             /\ glTextures' = glTextures \ held
             /\ textureCache' = EmptyMap
             /\ textureTimestamps' = EmptyMap
       /\ ConstructAfterClear =>
             /\ ~texOp'.hit
             /\ texOp'.decodes = 1]_vars

C18_Witness ==
    /\ texOp.name = "ClearCache"
    /\ Cardinality(texOp.released) = 2
    /\ \A h \in texOp.released : texOp.deleteCalls[h] = 1
    /\ textureCache = EmptyMap
    /\ textureTimestamps = EmptyMap
    /\ Len(texInst) = 2

\* the step is a Reload of the i-th instance
ReloadStep(i) ==
    texOp'.name = "reload" /\ texOp'.inst = i /\ files' = files

C5_Unmodified ==
    (SecondCachedConstruct /\ texOp'.mtime = texOp.mtime) =>
        /\ texOp'.ok
        /\ texOp'.ID = texOp.ID
        /\ texOp'.decodes = 0
        /\ texOp'.uploads = 0
        /\ texOp.decodes + texOp'.decodes <= 1
        /\ texOp.uploads + texOp'.uploads <= 1

\* C5 as stated: two cached constructions for one path with the file's
\* modification time unchanged share the handle and decode/upload once; with
\* the modification time changed the second decodes and uploads anew and
\* ends with a handle different from the first.
C5_AsStated ==
    [][/\ C5_Unmodified
       /\ (SecondCachedConstruct /\ texOp'.mtime # texOp.mtime) =>
             /\ texOp'.decodes = 1
             /\ texOp'.ok => (texOp'.uploads = 1 /\ texOp'.ID # texOp.ID)]_vars

\* C5: as above, except that with the modification time changed the second
\* construction releases the first one's handle and ends with a freshly
\* generated handle, cached under the current modification time; the fresh
\* handle may be numerically equal to the released one.
C5_CachedConstructTwice ==
    [][/\ C5_Unmodified
       /\ (SecondCachedConstruct /\ texOp'.mtime # texOp.mtime) =>
             /\ texOp'.decodes = 1
             /\ texOp.ID \in texOp'.released
             /\ texOp.path \notin DOMAIN textureCache'
                  \/ textureCache'[texOp.path] # texOp.ID
                  \/ texOp'.ID = texOp.ID
             /\ texOp'.ok =>
                   /\ texOp'.uploads = 1
                   /\ texOp'.generated = {texOp'.ID}
                   /\ texOp'.ID \notin (glTextures \ texOp'.released)
                   /\ textureCache'[texOp.path] = texOp'.ID
                   /\ textureTimestamps'[texOp.path] = texOp'.mtime]_vars

C5_Witness ==
    /\ texOp.name = "construct"
    /\ texOp.useCache
    /\ texOp.ok
    /\ texOp.erased
    /\ texOp.ID \in texOp.released
    /\ Len(texInst) = 2
    /\ texInst[1].texturePath = texOp.path
    /\ texInst[2].texturePath = texOp.path
    /\ texInst[1].ID = texInst[2].ID

\* C6: whenever a construction does not reuse a cached handle (caching
\* disabled, path not cached, or cached timestamp different from the file's),
\* any cache entry that exists for the path is removed and its GPU handle is
\* released before the new image is uploaded.
C6_MissInvalidatesEntry ==
    (/\ texOp.name = "construct"
     /\ texOp.mtime # 0
     /\ ~texOp.hit
     /\ texOp.hadEntry # 0)
    => /\ texOp.erased
       /\ texOp.hadEntry \in texOp.released

\* C7: a load whose decoded image has a channel count other than 1, 3 or 4
\* is rejected: nothing is uploaded, nothing is added to the cache, and the
\* construction or Reload reports failure.
C7_UnsupportedChannelsRejected ==
    (/\ texOp.name \in {"construct", "reload"}
     /\ texOp.decodes = 1
     /\ texOp.channels \notin {0, 1, 3, 4})
    => /\ texOp.uploads = 0
       /\ texOp.generated = {}
       /\ ~texOp.stored
       /\ ~texOp.ok

\* C8: constructing a Texture for a path whose file is missing, or whose
\* decode fails, ends in a construction error; no GPU texture handle is
\* allocated and no entry is added to the cache by that construction.
C8_FailedConstructAllocatesNothing ==
    [][(/\ ConstructStep
        /\ \/ ~files[texOp'.path].exists
           \/ texOp'.decodes = 1 /\ files[texOp'.path].chan = 0)
       => /\ ~texOp'.ok
          /\ texInst' = texInst
          /\ texOp'.generated = {}
          /\ texOp'.uploads = 0
          /\ glTextures' \subseteq glTextures
          /\ DOMAIN textureCache' \subseteq DOMAIN textureCache
          /\ ~texOp'.stored]_vars

C8_Witness ==
    /\ texOp.name = "construct"
    /\ texOp.path = "a"
    /\ ~texOp.ok
    /\ texOp.decodes = 1
    /\ texOp.channels = 0
    /\ files["a"].exists
    /\ files["a"].chan = 0
    /\ "b" \in DOMAIN textureCache

\* the step is the construction of the Shader in slot s
ShaderConstructStep(s) ==
    shOp'.name = "construct" /\ shOp'.slot = s /\ ~shaders[s].alive
        /\ shaders'[s].alive

\* C24: when Shader construction returns, in every outcome, every stage
\* object it created has been released, and a program object stays
\* allocated only if linking succeeded: none is created on a read or compile
\* failure, and the one created is released on a link failure.
C24_StagesReleased ==
    [][\A s \in ShaderSlots :
         ShaderConstructStep(s) =>
           LET o == shaders'[s].outcome
               made == glPrograms' \ glPrograms
           IN /\ glShaders' = glShaders
              /\ glShaders' = {}
              /\ glPrograms \subseteq glPrograms'
              /\ o = "success" =>
                    /\ Cardinality(made) = 1
                    /\ made = {shaders'[s].ID}
              /\ o # "success" =>
                    /\ made = {}
                    /\ shaders'[s].ID = 0
              /\ o \in {"unreadable", "vertexFail", "fragmentFail"} =>
                    "glCreateProgram" \notin shOp'.calls
              /\ o = "linkFail" =>
                    {"glCreateProgram", "glDeleteProgram"}
                        \subseteq shOp'.calls
              /\ "glCreateShader" \in shOp'.calls =>
                    "glDeleteShader" \in shOp'.calls]_vars

C24_Witness ==
    /\ shOp.name = "construct"
    /\ shaders[shOp.slot].outcome = "fragmentFail"
    /\ "glDeleteShader" \in shOp.calls
    /\ glShaders = {}
    /\ glPrograms # {}

ShaderNext ==
    \E s \in ShaderSlots :
        \/ ShaderConstruct(s)
        \/ ShaderDestroy(s)
        \/ ShaderUse(s)
        \/ ShaderSet(s)
        \/ GlUseProgramZero

InitShader ==
    ShaderInit /\ TexInit /\ MainInit /\ MeshInit /\ ClockInit /\ BindInit /\ DeltaInit

SpecShader == InitShader /\ [][ShaderNext]_vars

InitMesh ==
    ShaderInit /\ TexInit /\ MainInit /\ MeshInit /\ ClockInit /\ BindInit /\ DeltaInit

SpecMesh == InitMesh /\ [][MeshNext]_vars

\* a stored rate <<frames, ticks>> is within five percent of 60 frames a
\* second: frames * 60 / ticks differs from 60 by at most 3
Approx60(rate) ==
    /\ rate[2] > 0
    /\ 20 * (IF rate[1] >= rate[2] THEN rate[1] - rate[2]
                                   ELSE rate[2] - rate[1]) <= rate[2]

\* the step is an Update that ended an FPS window
WindowReset == updateCalls' = 0 /\ fps' # fps

\* C15: with the clock advancing one tick of 1/60 s per Update, the Update
\* that ends the first window is the first one to read 0.5 s or more, it
\* computes a rate of about 60 from the frames counted over the elapsed
\* time and resets the frame counter to zero; between resets the counter
\* equals the number of Update calls since the last reset.
C15_FpsWindow ==
    [][/\ frameCount' = updateCalls'
       /\ sinceFpsUpdate' < FpsWindow
       /\ WindowReset =>
             /\ frameCount' = 0
             /\ fps' = <<updateCalls + 1, sinceFpsUpdate + cadence>>
             /\ sinceFpsUpdate + cadence >= FpsWindow
             /\ (cadence = 1 /\ fpsResets = 0) => Approx60(fps')]_vars

C15_Witness ==
    /\ cadence = 1
    /\ fpsResets = 1
    /\ frameCount = 3
    /\ fps[2] >= FpsWindow
    /\ Approx60(fps)

InitFps ==
    /\ ShaderInit /\ TexInit /\ MainInit /\ MeshInit
    /\ SyntheticClockInit /\ BindInit /\ DeltaInit

InitDelta ==
    /\ ShaderInit /\ TexInit /\ MainInit /\ MeshInit
    /\ ClockInit /\ BindInit /\ MeasuredInit

DeltaNext == MeasureFrame \/ StepAndUpdate

SpecDelta == InitDelta /\ [][DeltaNext]_vars

\* C28: the elapsed time handed to the physics step and to Update is
\* greater than 0 and at most 0.1 s (6 ticks of 1/60 s): a measured value
\* above 0.1 s is replaced by 0.1 s, a value of zero or less by 1/60 s, any
\* other value is kept; the physics step is requested with at most 10
\* sub-steps of 1/60 s whatever the measured value.
C28_DeltaClamped ==
    /\ deltaTime # 0 =>
          /\ deltaTime > 0
          /\ deltaTime <= 6
          /\ measured > 6 => deltaTime = 6
          /\ measured <= 0 => deltaTime = 1
          /\ (measured > 0 /\ measured <= 6) => deltaTime = measured
    /\ handed # NoHanded =>
          /\ handed.timeStep = deltaTime
          /\ handed.update = deltaTime
          /\ handed.timeStep > 0
          /\ handed.timeStep <= 6
          /\ handed.maxSubSteps <= 10
          /\ handed.fixedTimeStep = 1

C28_Witness ==
    /\ measured < 0
    /\ handed.timeStep = 1
    /\ handed.update = 1
    /\ handed.maxSubSteps = 10

InitBind ==
    ShaderInit /\ TexInit /\ MainInit /\ MeshInit /\ ClockInit /\ BindInit /\ DeltaInit

SpecBind == InitBind /\ [][BindNext]_vars

FpsNext == UpdateTick

SpecFps == InitFps /\ [][FpsNext]_vars

\* a frame about to call ProcessInput: Initialize loaded everything, one
\* asset was imported and selected, no key was pressed yet
InitInput ==
    /\ ShaderInit /\ TexInit /\ MeshInit /\ BindInit /\ DeltaInit
    /\ pc = "processInput"
    /\ sinceFpsUpdate = 30
    /\ cadence = 0
    /\ updateCalls = 0
    /\ fpsResets = 2
    /\ m_editorState = "EDITING"
    /\ cursorMode = "NORMAL"
    /\ m_lockMouseInPlayMode = TRUE
    /\ isPaused = FALSE
    /\ m_raymarchShader = "valid"
    /\ m_rasterShader = "valid"
    /\ escapePressedLastFrame = FALSE
    /\ tabPressedLastFrame = FALSE
    /\ m_sceneAssets = <<[name |-> "model.obj", position |-> Origin,
                          mesh |-> 2]>>
    /\ m_selectedAsset = 0
    /\ frameCount = 0
    /\ fps = <<1, 30>>
    /\ deltaTime = MaxDelta
    /\ iter = [NoIter EXCEPT !.steps = <<"poll">>]
    /\ texture = "loaded"
    /\ textureLoaded = TRUE
    /\ m_cubeVAO = 1
    /\ rPressedLastFrame = FALSE
    /\ firstMouse = TRUE
    /\ firstOrbit = TRUE
    /\ lastX = MaxPos \div 2
    /\ orbitLastX = MaxPos \div 2
    /\ inOp = NoInOp
    /\ meshesBuilt = 2
    /\ gpuLive = QuadObjects \cup CubeObjects
                    \cup ProgramOf("raymarch", "valid")
                    \cup ProgramOf("raster", "valid")
                    \cup {MeshObject(2)}
    /\ gpuLate = {}
    /\ terminated = FALSE

InputNext == InputPoll \/ UiFrame

SpecInput == InitInput /\ [][InputNext]_vars

\* the step is a ProcessInput call; inOp holds the keys as the call before
\* it sampled them, inOp' as this one does
PollStep == pc = "processInput" /\ pc' = "render"

\* C33: every rising edge of the Tab key and of the reload (R) key that
\* occurs while the mode is Playing is acted on, once, in the call that
\* samples it; also the first press after Playing is entered again when the
\* key was last seen down in an earlier Playing session and was released
\* while Editing.
C33_EdgesActedOn ==
    [][(PollStep /\ inOp'.mode = "PLAYING") =>
          /\ (inOp'.tab /\ ~inOp.tab) => inOp'.tabFired
          /\ (inOp'.r /\ ~inOp.r) =>
                /\ inOp'.rFired
                /\ inOp'.reload # "none"]_vars

\* C34: a press of the reload key makes ProcessInput attempt a texture
\* reload in whichever mode it is made, Editing or Playing, and no texture
\* or shader load is attempted at any other time after Initialize.
C34_ReloadInEitherMode ==
    [][/\ PollStep =>
            /\ (inOp'.r /\ ~inOp.r) => inOp'.reload # "none"
            /\ inOp'.reload # "none" => inOp'.r
            /\ inOp'.reload = "none" =>
                  /\ texture' = texture
                  /\ textureLoaded' = textureLoaded
       /\ ~PollStep => /\ texture' = texture
                       /\ textureLoaded' = textureLoaded
       /\ m_raymarchShader' = m_raymarchShader
       /\ m_rasterShader' = m_rasterShader]_vars

\* C36: in Editing mode the first input frame of every right-mouse free-fly
\* drag and of every Alt+left-mouse orbit drag, not only of the first drag
\* of the session, applies a zero mouse offset to the camera.
C36_DragStartsAtZero ==
    [][PollStep =>
          /\ (inOp'.rmb /\ ~inOp.rmb) => inOp'.xoffset = 0
          /\ (inOp'.orbit /\ ~inOp.orbit) => inOp'.xoffset = 0]_vars

Init ==
    ShaderInit /\ TexInit /\ MainInit /\ MeshInit /\ ClockInit /\ BindInit /\ DeltaInit

Next ==
    \/ Initialize
    \/ LoopTop
    \/ LoopExit
    \/ ProcessInput
    \/ PhysicsUpdate
    \/ Update
    \/ Render
    \/ CleanupPhysics
    \/ RendererDtor

Spec == Init /\ [][Next]_vars

====
